---- MODULE Spec2Model ----
(***************************************************************************)
(* A model of the storage core of the BusTub teaching database:            *)
(*   - the buffer pool manager and its clock replacer                      *)
(*     (src/buffer/buffer_pool_manager.cpp, src/buffer/lru_replacer.cpp),  *)
(*   - the B+tree index with its leaf and internal pages                   *)
(*     (src/index/b_plus_tree.cpp, src/storage/page/*.cpp),                *)
(*   - the lock manager and the reader-writer latch                        *)
(*     (src/concurrency/lock_manager.cpp, src/include/common/rwlatch.h),   *)
(*   - the catalog (src/include/catalog/catalog.h).                        *)
(* Each subsystem has its own specification over the shared variables.     *)
(***************************************************************************)
EXTENDS Integers, Sequences, FiniteSets, TLC

\* ------------------------------------------------------------------------
\* Bounds of the buffer-pool model
\* ------------------------------------------------------------------------
PoolSize == 1
MaxPageId == 1
MaxData == 1
MaxPin == 2
MaxFreeList == PoolSize + 1

INVALID_PAGE_ID == -1

Frames == 0 .. (PoolSize - 1)
PageIds == 0 .. MaxPageId
Datas == 0 .. MaxData

VARIABLES
  pages_,            \* frame -> [page_id, pin_count, is_dirty, data]
  page_table_,       \* partial map page id -> frame (a function on its key set)
  free_list_,        \* sequence of frame ids
  replacement_pool_, \* the replacer's vector of candidate frames
  is_referenced,     \* the replacer's map frame -> reference bit
  pointer_,          \* the replacer's clock hand
  disk,              \* DiskManager: page id -> bytes last written
  next_page_id,      \* DiskManager: next id AllocatePage hands out
  last_op            \* observation of the last buffer-pool call (name, args, result)

bpmVars == <<pages_, page_table_, free_list_, replacement_pool_, is_referenced,
             pointer_, disk, next_page_id, last_op>>

VARIABLES
  nodes,              \* page id -> B+tree page held in the buffer pool (or NoNode)
  root_page_id_,      \* BPlusTree::root_page_id_
  tree_next_page_id,  \* the id the next NewPage of the tree gets
  leaf_max_size_,     \* BPlusTree::leaf_max_size_
  internal_max_size_, \* BPlusTree::internal_max_size_
  tree_op,            \* the last completed tree call: name, key, value, result
  shadow,             \* reference map: stored key -> the value it was inserted with
  only_distinct,      \* TRUE while the history is inserts of pairwise distinct keys
  ops                 \* number of tree calls made so far

treeVars == <<nodes, root_page_id_, tree_next_page_id, leaf_max_size_,
              internal_max_size_, tree_op, shadow, only_distinct, ops>>

VARIABLES
  root_page_mutex_,   \* BPlusTree::root_page_mutex_: 0 when free, else the holding thread
  threads             \* thread -> its position in the Insert call it is making

concVars == <<root_page_mutex_, threads>>

VARIABLES
  lock_table_,   \* LockManager::lock_table_: rid -> its LockRequestQueue (or none yet)
  txn_map,       \* TransactionManager::txn_map: txn id -> state, isolation level, lock sets
  waits_for_,    \* LockManager::waits_for_: partial map txn id -> sequence of txn ids
  latch_,        \* LockManager::latch_: 0 when free, else the transaction thread stuck with it
  lm_threads,    \* transaction thread -> where it is inside its lock-manager call
  lock_op,       \* the last lock-manager step: call, txn, rid, outcome
  lock_ops       \* number of lock-manager calls the clients still make

lockVars == <<lock_table_, txn_map, waits_for_, latch_, lm_threads, lock_op, lock_ops>>

VARIABLES
  reader_count_,   \* ReaderWriterLatch::reader_count_
  writer_entered_, \* ReaderWriterLatch::writer_entered_
  rw_threads       \* thread -> where it is in its latch calls

rwVars == <<reader_count_, writer_entered_, rw_threads>>

VARIABLES
  deallocated,   \* DiskManager: the page ids handed to DeallocatePage
  replacer_op    \* the last direct call of the replacer: name, frame, result, slots examined

VARIABLES
  bpm_latch_,    \* BufferPoolManager::latch_: 0 when free, else the thread holding it
  bpm_threads,   \* thread -> the buffer-pool call it is inside and its position
  pool_calls     \* number of buffer-pool calls the threads still make

poolVars == <<bpm_latch_, bpm_threads, pool_calls>>

VARIABLES
  tables_,          \* Catalog::tables_: table oid -> TableMetadata (name_, oid_)
  names_,           \* Catalog::names_: table name -> table oid
  next_table_oid_,  \* Catalog::next_table_oid_
  indexes_,         \* Catalog::indexes_: index oid -> IndexInfo (name_, index_oid_, table_name_)
  index_names_,     \* Catalog::index_names_: table name -> index name -> index oid
  next_index_oid_,  \* Catalog::next_index_oid_
  catalog_op,       \* the last catalog call: name, arguments, outcome, object returned
  created_tables,   \* the table names of the CreateTable calls that returned, in order
  created_indexes,  \* the <<table name, index name>> of the CreateIndex calls, in order
  catalog_calls     \* number of catalog calls still made

catalogVars == <<tables_, names_, next_table_oid_, indexes_, index_names_, next_index_oid_,
                 catalog_op, created_tables, created_indexes, catalog_calls>>

VARIABLES
  tree_pins,   \* pin_count of the buffer-pool frame of each tree page
  tree_call    \* the last tree call's use of its pages: each access with the
               \* pin count and the latch the caller held at that moment

pinVars == <<tree_pins, tree_call>>

VARIABLES
  tree_history,  \* the tree calls made so far, in order: <<name, key>>
  tree_log       \* the rebalancing steps of the last Remove: the sibling chosen
                 \* by each CoalesceOrRedistribute, the pages given to MoveAllTo

scenarioVars == <<tree_history, tree_log>>

VARIABLES
  rw_notified    \* the threads whose wait on reader_ or writer_ has been ended
                 \* by a notify (or spuriously) and that have not run since

cvVars == <<rw_notified>>

extVars == <<deallocated, replacer_op, poolVars, catalogVars, pinVars, scenarioVars, cvVars>>

syncVars == <<lockVars, rwVars, extVars>>

vars == <<bpmVars, treeVars, concVars, syncVars>>

\* ------------------------------------------------------------------------
\* Small helpers on sequences and maps
\* ------------------------------------------------------------------------
SeqToSet(s) == {s[i] : i \in 1 .. Len(s)}

RECURSIVE EraseFirst(_, _)
EraseFirst(s, x) ==
  IF s = <<>> THEN <<>>
  ELSE IF Head(s) = x THEN Tail(s)
  ELSE <<Head(s)>> \o EraseFirst(Tail(s), x)

MapErase(m, k) == [x \in (DOMAIN m) \ {k} |-> m[x]]

MapPut(m, k, v) == [x \in (DOMAIN m) \cup {k} |-> IF x = k THEN v ELSE m[x]]

\* ------------------------------------------------------------------------
\* LRUReplacer (clock), a replacer value is [pool, ref]
\* ------------------------------------------------------------------------
Size(rep) == Len(rep.pool)

Pin(rep, frame_id) ==
  IF frame_id \notin DOMAIN rep.ref THEN rep
  ELSE [pool |-> EraseFirst(rep.pool, frame_id), ref |-> MapErase(rep.ref, frame_id)]

Unpin(rep, frame_id) ==
  IF frame_id \in DOMAIN rep.ref THEN rep
  ELSE [pool |-> Append(rep.pool, frame_id), ref |-> MapPut(rep.ref, frame_id, TRUE)]

\* The for loop of Victim: i runs from 0 to pool_size inclusive and looks at
\* replacement_pool_[pointer_] each time; the hand is not moved by the loop.
\* A scan that gives up at the first candidate whose reference bit is set.
VictimOnePass(rep, ptr, i, pool_size) ==
  LET victim == rep.pool[ptr + 1] IN
  IF rep.ref[victim]
  THEN [ok |-> FALSE, frame |-> -1, rep |-> [rep EXCEPT !.ref[victim] = FALSE],
        examined |-> i + 1]
  ELSE [ok |-> TRUE, frame |-> victim, rep |-> Pin(rep, victim), examined |-> i + 1]

\* examined counts the reads of replacement_pool_[pointer_] the loop has made.
RECURSIVE VictimLoop(_, _, _, _)
VictimLoop(rep, ptr, i, pool_size) ==
  IF i > pool_size THEN [ok |-> FALSE, frame |-> -1, rep |-> rep, examined |-> i]
  ELSE LET victim == rep.pool[ptr + 1] IN
       IF rep.ref[victim]
       THEN VictimLoop([rep EXCEPT !.ref[victim] = FALSE], ptr, i + 1, pool_size)
       ELSE [ok |-> TRUE, frame |-> victim, rep |-> Pin(rep, victim), examined |-> i + 1]

Victim(rep, ptr) ==
  IF rep.pool = <<>> THEN [ok |-> FALSE, frame |-> -1, rep |-> rep, examined |-> 0]
  ELSE VictimLoop(rep, ptr, 0, Size(rep))

Replacer == [pool |-> replacement_pool_, ref |-> is_referenced]

\* ------------------------------------------------------------------------
\* BufferPoolManager
\* ------------------------------------------------------------------------
ResetMetadata(pg) == [pg EXCEPT !.pin_count = 0, !.is_dirty = FALSE]

IncrementPinCount(pg) == [pg EXCEPT !.pin_count = @ + 1]

DecrementPinCount(pg) == [pg EXCEPT !.pin_count = @ - 1]

\* FlushPageImpl as a function of the pool state: the disk afterwards.
FlushPageImpl(pgs, table, dsk, page_id) ==
  IF page_id = INVALID_PAGE_ID \/ page_id \notin DOMAIN table THEN dsk
  ELSE [dsk EXCEPT ![page_id] = pgs[table[page_id]].data]

FlushPageResult(table, page_id) ==
  ~(page_id = INVALID_PAGE_ID \/ page_id \notin DOMAIN table)

\* What the caller of the last buffer-pool call saw: the call, its page id
\* argument (for NewPage, the id handed out), its result, and UnpinPage's flag.
Op(name, page_id, ok, is_dirty) ==
  [op |-> name, page_id |-> page_id, ok |-> ok, is_dirty |-> is_dirty]

BpmInit ==
  /\ pages_ = [f \in Frames |->
                 [page_id |-> INVALID_PAGE_ID, pin_count |-> 0, is_dirty |-> FALSE, data |-> 0]]
  /\ page_table_ = << >>
  /\ free_list_ = [i \in 1 .. PoolSize |-> i - 1]
  /\ replacement_pool_ = << >>
  /\ is_referenced = << >>
  /\ pointer_ = 0
  /\ disk = [p \in PageIds |-> 0]
  /\ next_page_id = 0
  /\ last_op = Op("init", INVALID_PAGE_ID, TRUE, FALSE)

SetReplacer(rep) ==
  /\ replacement_pool_' = rep.pool
  /\ is_referenced' = rep.ref

\* FetchPageImpl, 1.1: the page is resident.
FetchResident(page_id) ==
  LET frame_id == page_table_[page_id] IN
  /\ pages_[frame_id].pin_count < MaxPin
  /\ pages_' = [pages_ EXCEPT ![frame_id] = IncrementPinCount(@)]
  /\ SetReplacer(Pin(Replacer, frame_id))
  /\ last_op' = Op("fetch", page_id, TRUE, FALSE)
  /\ UNCHANGED <<page_table_, free_list_, pointer_, disk, next_page_id>>

\* FetchPageImpl, 1.2 with a non-empty free list: the front frame is used but
\* is not popped, and the frame's page id and dirty bit are left as they are.
FetchFromFreeList(page_id) ==
  LET frame_id == Head(free_list_) IN
  /\ pages_[frame_id].pin_count < MaxPin
  /\ pages_' = [pages_ EXCEPT ![frame_id] =
                  IncrementPinCount([@ EXCEPT !.data = disk[page_id]])]
  /\ page_table_' = MapPut(page_table_, page_id, frame_id)
  /\ last_op' = Op("fetch", page_id, TRUE, FALSE)
  /\ UNCHANGED <<free_list_, replacement_pool_, is_referenced, pointer_, disk, next_page_id>>

\* A fetch that gives up instead of asking the replacer for a victim.
FetchWithoutVictim(page_id) ==
  /\ last_op' = Op("fetch", page_id, FALSE, FALSE)
  /\ UNCHANGED <<pages_, page_table_, free_list_, replacement_pool_, is_referenced,
                 pointer_, disk, next_page_id>>

\* FetchPageImpl, 1.2 with an empty free list: a victim from the replacer.
\* The victim's page-table entry is erased before FlushPageImpl is called.
FetchFromReplacer(page_id) ==
  LET v == Victim(Replacer, pointer_)
      victim_frame_id == v.frame
      victim == pages_[victim_frame_id]
      victim_page_id == victim.page_id
      table1 == MapErase(page_table_, victim_page_id)
      disk1 == IF victim.is_dirty
               THEN FlushPageImpl(pages_, table1, disk, victim_page_id)
               ELSE disk
      pg1 == ResetMetadata([victim EXCEPT !.data = 0])
      pg2 == [pg1 EXCEPT !.data = disk1[page_id]]
      pg3 == [IncrementPinCount(pg2) EXCEPT !.page_id = page_id]
  IN
  /\ v.ok
  /\ disk' = disk1
  /\ page_table_' = MapPut(table1, page_id, victim_frame_id)
  /\ pages_' = [pages_ EXCEPT ![victim_frame_id] = pg3]
  /\ SetReplacer(Pin(v.rep, victim_frame_id))
  /\ last_op' = Op("fetch", page_id, TRUE, FALSE)
  /\ UNCHANGED <<free_list_, pointer_, next_page_id>>

FetchFail(page_id) ==
  /\ last_op' = Op("fetch", page_id, FALSE, FALSE)
  /\ UNCHANGED <<pages_, page_table_, free_list_, replacement_pool_, is_referenced,
                 pointer_, disk, next_page_id>>

FetchPageImpl(page_id) ==
  IF page_id \in DOMAIN page_table_ THEN FetchResident(page_id)
  ELSE IF free_list_ # << >> THEN FetchFromFreeList(page_id)
  ELSE IF Size(Replacer) > 0 /\ Victim(Replacer, pointer_).ok THEN FetchFromReplacer(page_id)
  ELSE FetchFail(page_id)

FetchPage ==
  \E page_id \in PageIds :
    FetchPageImpl(page_id) /\ UNCHANGED <<treeVars, concVars, syncVars>>

\* An unpin that decrements the pin count of any resident page.
UnpinUnchecked(page_id, is_dirty) ==
  IF page_id \in DOMAIN page_table_
  THEN LET frame_id == page_table_[page_id]
           pg1 == DecrementPinCount(pages_[frame_id])
       IN
       /\ SetReplacer(IF pg1.pin_count = 0 THEN Unpin(Replacer, frame_id) ELSE Replacer)
       /\ pages_' = [pages_ EXCEPT ![frame_id] = [pg1 EXCEPT !.is_dirty = is_dirty]]
       /\ last_op' = Op("unpin", page_id, TRUE, is_dirty)
       /\ UNCHANGED <<page_table_, free_list_, pointer_, disk, next_page_id>>
  ELSE /\ last_op' = Op("unpin", page_id, FALSE, is_dirty)
       /\ UNCHANGED <<pages_, page_table_, free_list_, replacement_pool_,
                      is_referenced, pointer_, disk, next_page_id>>

\* UnpinPageImpl: the dirty flag is assigned from the argument.
UnpinPageImpl(page_id, is_dirty) ==
  IF page_id \in DOMAIN page_table_
  THEN LET frame_id == page_table_[page_id]
           page == pages_[frame_id]
       IN
       IF page.pin_count <= 0
       THEN /\ last_op' = Op("unpin", page_id, FALSE, is_dirty)
            /\ UNCHANGED <<pages_, page_table_, free_list_, replacement_pool_,
                           is_referenced, pointer_, disk, next_page_id>>
       ELSE LET pg1 == DecrementPinCount(page) IN
            /\ SetReplacer(IF pg1.pin_count = 0 THEN Unpin(Replacer, frame_id) ELSE Replacer)
            /\ pages_' = [pages_ EXCEPT ![frame_id] = [pg1 EXCEPT !.is_dirty = is_dirty]]
            /\ last_op' = Op("unpin", page_id, TRUE, is_dirty)
            /\ UNCHANGED <<page_table_, free_list_, pointer_, disk, next_page_id>>
  ELSE /\ last_op' = Op("unpin", page_id, FALSE, is_dirty)
       /\ UNCHANGED <<pages_, page_table_, free_list_, replacement_pool_,
                      is_referenced, pointer_, disk, next_page_id>>

UnpinPage ==
  \E page_id \in PageIds, is_dirty \in BOOLEAN :
    UnpinPageImpl(page_id, is_dirty) /\ UNCHANGED <<treeVars, concVars, syncVars>>

\* The public FlushPage
FlushPage ==
  \E page_id \in PageIds \cup {INVALID_PAGE_ID} :
    /\ disk' = FlushPageImpl(pages_, page_table_, disk, page_id)
    /\ last_op' = Op("flush", page_id, FlushPageResult(page_table_, page_id), FALSE)
    /\ UNCHANGED <<pages_, page_table_, free_list_, replacement_pool_, is_referenced,
                   pointer_, next_page_id>>
    /\ UNCHANGED <<treeVars, concVars, syncVars>>

\* NewPageImpl with a non-empty free list.
NewPageFromFreeList ==
  LET frame_id == Head(free_list_)
      page_id == next_page_id
      pg == pages_[frame_id]
      new_page == IncrementPinCount(ResetMetadata([pg EXCEPT !.data = 0, !.page_id = page_id]))
  IN
  /\ next_page_id <= MaxPageId
  /\ free_list_' = Tail(free_list_)
  /\ next_page_id' = next_page_id + 1
  /\ page_table_' = MapPut(page_table_, page_id, frame_id)
  /\ pages_' = [pages_ EXCEPT ![frame_id] = new_page]
  /\ SetReplacer(Pin(Replacer, frame_id))
  /\ last_op' = Op("new", page_id, TRUE, FALSE)
  /\ UNCHANGED <<pointer_, disk>>

\* NewPageImpl when every frame has a non-zero pin count, or the replacer has no victim.
NewPageFail ==
  /\ last_op' = Op("new", INVALID_PAGE_ID, FALSE, FALSE)
  /\ UNCHANGED <<pages_, page_table_, free_list_, replacement_pool_, is_referenced,
                 pointer_, disk, next_page_id>>

\* NewPageImpl with a victim from the replacer: flush, then erase.
NewPageFromReplacer ==
  LET v == Victim(Replacer, pointer_)
      victim_frame_id == v.frame
      victim_page == pages_[victim_frame_id]
      victim_page_id == victim_page.page_id
      disk1 == IF victim_page.is_dirty
               THEN FlushPageImpl(pages_, page_table_, disk, victim_page_id)
               ELSE disk
      table1 == MapErase(page_table_, victim_page_id)
      page_id == next_page_id
      pg1 == IncrementPinCount(ResetMetadata(
               [victim_page EXCEPT !.page_id = page_id, !.data = 0]))
  IN
  /\ v.ok
  /\ next_page_id <= MaxPageId
  /\ disk' = disk1
  /\ next_page_id' = next_page_id + 1
  /\ page_table_' = MapPut(table1, page_id, victim_frame_id)
  /\ pages_' = [pages_ EXCEPT ![victim_frame_id] = pg1]
  /\ SetReplacer(Pin(v.rep, victim_frame_id))
  /\ last_op' = Op("new", page_id, TRUE, FALSE)
  /\ UNCHANGED <<free_list_, pointer_>>

NewPageImpl ==
  IF free_list_ # << >> THEN NewPageFromFreeList
  ELSE IF \A f \in Frames : pages_[f].pin_count # 0 THEN NewPageFail
  ELSE IF Victim(Replacer, pointer_).ok THEN NewPageFromReplacer
  ELSE NewPageFail

NewPage == NewPageImpl /\ UNCHANGED <<treeVars, concVars, syncVars>>

\* DeletePageImpl: the frame goes back to the free list; the replacer is not told
\* and DiskManager::DeallocatePage is not called.
DeletePageImpl(page_id) ==
  IF page_id \notin DOMAIN page_table_
  THEN /\ last_op' = Op("delete", page_id, TRUE, FALSE)
       /\ UNCHANGED <<pages_, page_table_, free_list_, replacement_pool_, is_referenced,
                      pointer_, disk, next_page_id>>
  ELSE LET frame_id == page_table_[page_id] IN
       IF pages_[frame_id].pin_count > 0
       THEN /\ last_op' = Op("delete", page_id, FALSE, FALSE)
            /\ UNCHANGED <<pages_, page_table_, free_list_, replacement_pool_,
                           is_referenced, pointer_, disk, next_page_id>>
       ELSE /\ Len(free_list_) < MaxFreeList
            /\ page_table_' = MapErase(page_table_, page_id)
            /\ pages_' = [pages_ EXCEPT ![frame_id] = ResetMetadata(@)]
            /\ free_list_' = Append(free_list_, frame_id)
            /\ last_op' = Op("delete", page_id, TRUE, FALSE)
            /\ UNCHANGED <<replacement_pool_, is_referenced, pointer_, disk, next_page_id>>

DeletePage ==
  \E page_id \in PageIds :
    DeletePageImpl(page_id) /\ UNCHANGED <<treeVars, concVars, syncVars>>

\* FlushAllPagesImpl: writes the unpinned dirty pages, leaves the dirty bits.
FlushAllPagesImpl ==
  /\ disk' = [p \in PageIds |->
                IF /\ p \in DOMAIN page_table_
                   /\ pages_[page_table_[p]].pin_count = 0
                   /\ pages_[page_table_[p]].is_dirty
                THEN pages_[page_table_[p]].data ELSE disk[p]]
  /\ last_op' = Op("flushall", INVALID_PAGE_ID, TRUE, FALSE)
  /\ UNCHANGED <<pages_, page_table_, free_list_, replacement_pool_, is_referenced,
                 pointer_, next_page_id>>

FlushAllPages == FlushAllPagesImpl /\ UNCHANGED <<treeVars, concVars, syncVars>>

\* A caller that holds a pin writes the page's bytes through Page::GetData().
WritePageData ==
  \E page_id \in DOMAIN page_table_, d \in Datas :
    LET frame_id == page_table_[page_id] IN
    /\ pages_[frame_id].pin_count > 0
    /\ pages_[frame_id].data # d
    /\ pages_' = [pages_ EXCEPT ![frame_id].data = d]
    /\ last_op' = Op("write", page_id, TRUE, FALSE)
    /\ UNCHANGED <<page_table_, free_list_, replacement_pool_, is_referenced,
                   pointer_, disk, next_page_id>>
    /\ UNCHANGED <<treeVars, concVars, syncVars>>

\* ------------------------------------------------------------------------
\* The replacer called directly, on frames 0 .. MaxReplacerFrame
\* ------------------------------------------------------------------------
MaxReplacerFrame == 3

ReplacerFrames == 0 .. MaxReplacerFrame

\* What a direct caller of the replacer saw.
ReplacerOp(name, frame, ok, examined) ==
  [op |-> name, frame |-> frame, ok |-> ok, examined |-> examined]

ReplacerReturn(name, frame, ok, examined) ==
  /\ replacer_op' = ReplacerOp(name, frame, ok, examined)
  /\ UNCHANGED <<pages_, page_table_, free_list_, pointer_, disk, next_page_id, last_op>>
  /\ UNCHANGED <<treeVars, concVars, lockVars, rwVars, deallocated, poolVars, catalogVars,
               pinVars, scenarioVars,
               cvVars>>

ReplacerPin ==
  \E frame_id \in ReplacerFrames :
    /\ SetReplacer(Pin(Replacer, frame_id))
    /\ ReplacerReturn("Pin", frame_id, TRUE, 0)

ReplacerUnpin ==
  \E frame_id \in ReplacerFrames :
    /\ SetReplacer(Unpin(Replacer, frame_id))
    /\ ReplacerReturn("Unpin", frame_id, TRUE, 0)

ReplacerVictim ==
  LET v == Victim(Replacer, pointer_) IN
  /\ SetReplacer(v.rep)
  /\ ReplacerReturn("Victim", v.frame, v.ok, v.examined)

ReplacerNext == ReplacerPin \/ ReplacerUnpin \/ ReplacerVictim

\* ------------------------------------------------------------------------
\* The buffer pool called by several threads
\* ------------------------------------------------------------------------
MaxPoolThreads == 2
MaxPoolCalls == 4

PoolThreads == 1 .. MaxPoolThreads

PoolIdle == [pc |-> "idle", op |-> "none", page_id |-> INVALID_PAGE_ID,
             is_dirty |-> FALSE, frame_id |-> -1]

PoolInit ==
  /\ bpm_latch_ = 0
  /\ bpm_threads = [t \in PoolThreads |-> PoolIdle]
  /\ pool_calls = MaxPoolCalls

PoolRest ==
  UNCHANGED <<treeVars, concVars, lockVars, rwVars, deallocated, replacer_op, catalogVars,
              pinVars, scenarioVars,
               cvVars>>

\* std::lock_guard<std::mutex> guard(latch_), the first statement of
\* FetchPageImpl, UnpinPageImpl, NewPageImpl, DeletePageImpl, FlushAllPagesImpl.
PoolLock(t) ==
  \E op \in {"fetch", "unpin", "new", "delete", "flushall"},
     page_id \in PageIds, is_dirty \in BOOLEAN :
    /\ bpm_threads[t].pc = "idle"
    /\ pool_calls > 0
    /\ op \in {"new", "flushall"} => page_id = 0
    /\ op # "unpin" => ~is_dirty
    /\ bpm_latch_ = 0
    /\ bpm_latch_' = t
    /\ bpm_threads' = [bpm_threads EXCEPT ![t] =
                         [PoolIdle EXCEPT !.pc = "locked", !.op = op,
                                          !.page_id = page_id, !.is_dirty = is_dirty]]
    /\ pool_calls' = pool_calls - 1
    /\ UNCHANGED bpmVars
    /\ PoolRest

\* The rest of the call, made with the mutex held; the guard's destructor
\* unlocks at the return.
PoolBody(t) ==
  LET c == bpm_threads[t] IN
  /\ c.pc = "locked"
  /\ CASE c.op = "fetch" -> FetchPageImpl(c.page_id)
       [] c.op = "unpin" -> UnpinPageImpl(c.page_id, c.is_dirty)
       [] c.op = "new" -> NewPageImpl
       [] c.op = "delete" -> DeletePageImpl(c.page_id)
       [] c.op = "flushall" -> FlushAllPagesImpl
  /\ bpm_latch_' = 0
  /\ bpm_threads' = [bpm_threads EXCEPT ![t] = PoolIdle]
  /\ UNCHANGED pool_calls
  /\ PoolRest

\* FlushPage(page_id) is FlushPageImpl(page_id), which takes no lock. Its test
\* page_id == INVALID_PAGE_ID || page_table_.find(page_id) == page_table_.end()
FlushFind(t) ==
  \E page_id \in PageIds \cup {INVALID_PAGE_ID} :
    /\ bpm_threads[t].pc = "idle"
    /\ pool_calls > 0
    /\ pool_calls' = pool_calls - 1
    /\ IF FlushPageResult(page_table_, page_id)
       THEN /\ bpm_threads' = [bpm_threads EXCEPT ![t] =
                                 [PoolIdle EXCEPT !.pc = "flush_index", !.op = "flush",
                                                  !.page_id = page_id]]
            /\ UNCHANGED last_op
       ELSE /\ last_op' = Op("flush", page_id, FALSE, FALSE)
            /\ UNCHANGED bpm_threads
    /\ UNCHANGED <<pages_, page_table_, free_list_, replacement_pool_, is_referenced,
                   pointer_, disk, next_page_id, bpm_latch_>>
    /\ PoolRest

\* auto frame_id = page_table_[page_id]: operator[] inserts the key with a
\* value-initialised frame id when the entry has gone since the test.
FlushIndex(t) ==
  LET c == bpm_threads[t] IN
  /\ c.pc = "flush_index"
  /\ page_table_' = IF c.page_id \in DOMAIN page_table_ THEN page_table_
                    ELSE MapPut(page_table_, c.page_id, 0)
  /\ bpm_threads' = [bpm_threads EXCEPT ![t].pc = "flush_write",
                                        ![t].frame_id = page_table_'[c.page_id]]
  /\ UNCHANGED <<pages_, free_list_, replacement_pool_, is_referenced,
                 pointer_, disk, next_page_id, last_op, bpm_latch_, pool_calls>>
  /\ PoolRest

\* disk_manager_->WritePage(page_id, page->GetData()); return true
FlushWrite(t) ==
  LET c == bpm_threads[t] IN
  /\ c.pc = "flush_write"
  /\ disk' = [disk EXCEPT ![c.page_id] = pages_[c.frame_id].data]
  /\ last_op' = Op("flush", c.page_id, TRUE, FALSE)
  /\ bpm_threads' = [bpm_threads EXCEPT ![t] = PoolIdle]
  /\ UNCHANGED <<pages_, page_table_, free_list_, replacement_pool_, is_referenced,
                 pointer_, next_page_id, bpm_latch_, pool_calls>>
  /\ PoolRest

PoolNext ==
  \E t \in PoolThreads :
    \/ PoolLock(t)
    \/ PoolBody(t)
    \/ FlushFind(t)
    \/ FlushIndex(t)
    \/ FlushWrite(t)

\* ------------------------------------------------------------------------
\* Catalog (src/include/catalog/catalog.h)
\* ------------------------------------------------------------------------
MaxTableName == 2
MaxIndexName == 2
MaxCatalogCalls == 5

TableNames == 1 .. MaxTableName
IndexNames == 1 .. MaxIndexName

NoObject == [kind |-> "none"]

TableMetadata(name, oid) == [kind |-> "table", name_ |-> name, oid_ |-> oid]

IndexInfo(name, index_oid, table_name) ==
  [kind |-> "index", name_ |-> name, index_oid_ |-> index_oid, table_name_ |-> table_name]

\* std::unordered_map::insert: an existing key keeps its value.
MapInsert(map, k, v) == IF k \in DOMAIN map THEN map ELSE MapPut(map, k, v)

\* An oid counter that does not move.
KeepOid(oid) == oid

IncrementTblOid(oid) == oid + 1

IncrementIndexOid(oid) == oid + 1

CatalogOp(name, table_name, index_name, outcome, object) ==
  [op |-> name, table_name |-> table_name, index_name |-> index_name,
   outcome |-> outcome, object |-> object]

CatalogInit ==
  /\ tables_ = << >>
  /\ names_ = << >>
  /\ next_table_oid_ = 0
  /\ indexes_ = << >>
  /\ index_names_ = << >>
  /\ next_index_oid_ = 0
  /\ catalog_op = CatalogOp("init", 0, 0, "ok", NoObject)
  /\ created_tables = << >>
  /\ created_indexes = << >>
  /\ catalog_calls = MaxCatalogCalls

\* The process is alive (no BUSTUB_ASSERT has failed) and calls remain.
CatalogCanCall == catalog_op.outcome # "assert" /\ catalog_calls > 0

CatalogRest ==
  /\ catalog_calls' = catalog_calls - 1
  /\ UNCHANGED <<bpmVars, treeVars, concVars, lockVars, rwVars, deallocated, replacer_op,
                 poolVars, pinVars, scenarioVars,
               cvVars>>

\* GetTable(const std::string &): names_.at throws std::out_of_range for an
\* unknown name; GetTable(table_oid_t) is tables_[table_oid].get().
GetTable(table_name) ==
  IF table_name \notin DOMAIN names_ THEN [outcome |-> "out_of_range", object |-> NoObject]
  ELSE LET table_oid == names_[table_name] IN
       [outcome |-> "ok",
        object |-> IF table_oid \in DOMAIN tables_ THEN tables_[table_oid] ELSE NoObject]

\* GetIndex(index_name, table_name): index_names_.at(table_name).at(index_name)
GetIndex(index_name, table_name) ==
  IF \/ table_name \notin DOMAIN index_names_
     \/ index_name \notin DOMAIN index_names_[table_name]
  THEN [outcome |-> "out_of_range", object |-> NoObject]
  ELSE LET index_oid == index_names_[table_name][index_name] IN
       [outcome |-> "ok",
        object |-> IF index_oid \in DOMAIN indexes_ THEN indexes_[index_oid] ELSE NoObject]

CreateTable ==
  \E table_name \in TableNames :
    /\ CatalogCanCall
    /\ IF table_name \in DOMAIN names_
       THEN /\ catalog_op' = CatalogOp("CreateTable", table_name, 0, "assert", NoObject)
            /\ UNCHANGED <<tables_, names_, next_table_oid_, created_tables>>
       ELSE LET table_oid == next_table_oid_
                tables1 == MapInsert(tables_, table_oid, TableMetadata(table_name, table_oid))
            IN
            /\ tables_' = tables1
            /\ names_' = MapInsert(names_, table_name, table_oid)
            /\ next_table_oid_' = IncrementTblOid(next_table_oid_)
            /\ catalog_op' = CatalogOp("CreateTable", table_name, 0, "ok", tables1[table_oid])
            /\ created_tables' = Append(created_tables, table_name)
    /\ UNCHANGED <<indexes_, index_names_, next_index_oid_, created_indexes>>
    /\ CatalogRest

CatalogGetTable ==
  \E table_name \in TableNames :
    LET r == GetTable(table_name) IN
    /\ CatalogCanCall
    /\ catalog_op' = CatalogOp("GetTable", table_name, 0, r.outcome, r.object)
    /\ UNCHANGED <<tables_, names_, next_table_oid_, indexes_, index_names_,
                   next_index_oid_, created_tables, created_indexes>>
    /\ CatalogRest

\* index_names_[table_name] creates the inner map of a table name not seen yet.
CreateIndex ==
  \E index_name \in IndexNames, table_name \in TableNames :
    LET index_oid == next_index_oid_
        indexes1 == MapInsert(indexes_, index_oid, IndexInfo(index_name, index_oid, table_name))
        inner == IF table_name \in DOMAIN index_names_ THEN index_names_[table_name] ELSE << >>
    IN
    /\ CatalogCanCall
    /\ indexes_' = indexes1
    /\ index_names_' = MapPut(index_names_, table_name, MapInsert(inner, index_name, index_oid))
    /\ next_index_oid_' = IncrementIndexOid(next_index_oid_)
    /\ catalog_op' = CatalogOp("CreateIndex", table_name, index_name, "ok", indexes1[index_oid])
    /\ created_indexes' = Append(created_indexes, <<table_name, index_name>>)
    /\ UNCHANGED <<tables_, names_, next_table_oid_, created_tables>>
    /\ CatalogRest

CatalogGetIndex ==
  \E index_name \in IndexNames, table_name \in TableNames :
    LET r == GetIndex(index_name, table_name) IN
    /\ CatalogCanCall
    /\ catalog_op' = CatalogOp("GetIndex", table_name, index_name, r.outcome, r.object)
    /\ UNCHANGED <<tables_, names_, next_table_oid_, indexes_, index_names_,
                   next_index_oid_, created_tables, created_indexes>>
    /\ CatalogRest

CatalogNext == CreateTable \/ CatalogGetTable \/ CreateIndex \/ CatalogGetIndex

\* ========================================================================
\* B+tree over the buffer pool (pages stay resident: no page is evicted)
\* ========================================================================

\* Bounds of the B+tree model
MaxKey == 6
MaxVal == 2
MaxLeafMaxSize == 5
MaxInternalMaxSize == 4
MaxTreePages == 10
MaxOps == 6

\* sizeof(GenericKey<8>): the key is the first KeySize bytes of a leaf entry,
\* stored as a little-endian integer.
KeySize == 8

Keys == 1 .. MaxKey
\* RIDs are opaque to the tree: key k is inserted with one of MaxVal RIDs of its own
ValuesOf(key) == {key * 10 + g : g \in 1 .. MaxVal}
LeafMaxSizes == 3 .. MaxLeafMaxSize
InternalMaxSizes == 3 .. MaxInternalMaxSize
\* One call allocates fewer than PageSlack pages; a call that would allocate
\* past MaxTreePages is not made.
PageSlack == 4
TreePageIds == 1 .. (MaxTreePages + PageSlack)

\* Number of array slots modelled per page: max_size + 1 entries are used, and
\* one more slot may be written by a shift.
ArrCap == (IF MaxLeafMaxSize > MaxInternalMaxSize
           THEN MaxLeafMaxSize ELSE MaxInternalMaxSize) + 2

NoNode == [page_type |-> "NONE"]

ZeroItem == [key |-> 0, value |-> 0]

ZeroItems == [i \in 0 .. (ArrCap - 1) |-> ZeroItem]

\* A page as NewPage hands it out: ResetMemory() has zeroed it, so its page type
\* is the enumerator 0, which is neither leaf nor internal.
ZeroPage ==
  [page_type |-> "INVALID_INDEX_PAGE", page_id |-> 0, parent_page_id |-> 0,
   max_size |-> 0, size |-> 0, next_page_id |-> 0, items |-> ZeroItems]

\* std::memmove of n whole entries inside / between item arrays
MemmoveItems(dst_items, dst, src_items, src, n) ==
  [i \in DOMAIN dst_items |->
     IF i >= dst /\ i < dst + n THEN src_items[i - dst + src] ELSE dst_items[i]]

Pow256(n) == 256 ^ n

\* std::memmove of n bytes (n <= KeySize) from the start of entry src to the
\* start of entry dst: the low n bytes of the key are replaced.
MemmoveBytes(items, dst, src, n) ==
  IF n <= 0 THEN items
  ELSE LET m == IF n > KeySize THEN KeySize ELSE n
           k == (items[dst].key \div Pow256(m)) * Pow256(m) + (items[src].key % Pow256(m))
       IN [items EXCEPT ![dst] = [key |-> k, value |-> items[dst].value]]

\* ---- BPlusTreePage (header shared by both page kinds) ---------------------
IsLeafPage(node) == node.page_type = "LEAF"

IsRootPage(node) == node.parent_page_id = INVALID_PAGE_ID

GetSize(node) == node.size

GetMaxSize(node) == node.max_size

GetMinSize(node) == (node.max_size + 1) \div 2

IsFull(node) == node.size > node.max_size

IsHalfFull(node) == node.size >= GetMinSize(node)

IncreaseSize(node, amount) == [node EXCEPT !.size = @ + amount]

\* ---- BPlusTreeLeafPage ------------------------------------------------------
LeafInit(page_id, parent_id, max_size) ==
  [page_type |-> "LEAF", page_id |-> page_id, parent_page_id |-> parent_id,
   max_size |-> max_size - 1, size |-> 0, next_page_id |-> INVALID_PAGE_ID,
   items |-> ZeroItems]

KeyAt(node, index) == node.items[index].key

ValueAt(node, index) == node.items[index].value

RECURSIVE KeyIndexLoop(_, _, _, _)
KeyIndexLoop(node, key, l, r) ==
  IF l < r
  THEN LET mid == (l + r) \div 2 IN
       IF KeyAt(node, mid) >= key
       THEN KeyIndexLoop(node, key, l, mid)
       ELSE KeyIndexLoop(node, key, mid + 1, r)
  ELSE l

KeyIndex(node, key) == KeyIndexLoop(node, key, 0, GetSize(node))

LeafInsert(node, key, value) ==
  LET key_index == KeyIndex(node, key) IN
  IF key_index < GetSize(node) /\ KeyAt(node, key_index) = key
  THEN node
  ELSE LET moved_size == GetSize(node) - key_index
           shifted == MemmoveItems(node.items, key_index + 1, node.items, key_index, moved_size)
       IN IncreaseSize([node EXCEPT !.items = [shifted EXCEPT ![key_index] =
                                                 [key |-> key, value |-> value]]], 1)

\* MoveHalfTo with CopyHalfFrom: <<this page, recipient>> afterwards
LeafMoveHalfTo(node, recipient) ==
  LET size == GetSize(node)
      remain_size == GetMinSize(node)
      num_copy_items == size - remain_size
      r1 == IncreaseSize([recipient EXCEPT !.items =
                MemmoveItems(recipient.items, 0, node.items, remain_size, num_copy_items)],
              num_copy_items)
      n1 == IncreaseSize(node, 0 - num_copy_items)
      r2 == [r1 EXCEPT !.next_page_id = n1.next_page_id]
      n2 == [n1 EXCEPT !.next_page_id = recipient.page_id]
  IN <<n2, r2>>

\* Lookup: <<found, value>>
LeafLookup(node, key) ==
  LET key_index == KeyIndex(node, key) IN
  IF key_index < GetSize(node) /\ key = KeyAt(node, key_index)
  THEN <<TRUE, ValueAt(node, key_index)>>
  ELSE <<FALSE, 0>>

\* ---- BPlusTreeInternalPage --------------------------------------------------
InternalInit(page_id, parent_id, max_size) ==
  [page_type |-> "INTERNAL", page_id |-> page_id, parent_page_id |-> parent_id,
   max_size |-> max_size, size |-> 0, next_page_id |-> INVALID_PAGE_ID,
   items |-> ZeroItems]

RECURSIVE ValueIndexLoop(_, _, _)
ValueIndexLoop(node, value, i) ==
  IF i < GetSize(node)
  THEN IF node.items[i].value = value THEN i ELSE ValueIndexLoop(node, value, i + 1)
  ELSE 0

ValueIndex(node, value) == ValueIndexLoop(node, value, 0)

RECURSIVE InternalLookupLoop(_, _, _, _)
InternalLookupLoop(node, key, l, r) ==
  IF l < r
  THEN LET mid == (l + r) \div 2 IN
       IF KeyAt(node, mid) > key
       THEN InternalLookupLoop(node, key, l, mid)
       ELSE InternalLookupLoop(node, key, mid + 1, r)
  ELSE l

InternalLookup(node, key) ==
  ValueAt(node, InternalLookupLoop(node, key, 1, GetSize(node)) - 1)

PopulateNewRoot(node, old_value, new_key, new_value) ==
  IncreaseSize([node EXCEPT !.items[0].value = old_value,
                            !.items[1] = [key |-> new_key, value |-> new_value]], 2)

InsertNodeAfter(node, old_value, new_key, new_value) ==
  LET value_index == ValueIndex(node, old_value)
      moved_size == GetSize(node) - 1 - (value_index + 1) + 1
      shifted == MemmoveItems(node.items, value_index + 2, node.items, value_index + 1, moved_size)
  IN IncreaseSize([node EXCEPT !.items = [shifted EXCEPT ![value_index + 1] =
                                            [key |-> new_key, value |-> new_value]]], 1)

\* CopyNFrom: the page me_id appends the entries src_items[src .. src+size-1]
\* and adopts each moved child (FetchPage, SetParentPageId, UnpinPage).
RECURSIVE CopyNFromLoop(_, _, _, _, _, _, _)
CopyNFromLoop(ns, me_id, my_size, src_items, src, size, i) ==
  IF i < size
  THEN LET item == src_items[src + i]
           ns1 == [ns EXCEPT ![me_id].items[my_size + i] = item]
           ns2 == [ns1 EXCEPT ![item.value].parent_page_id = me_id]
       IN CopyNFromLoop(ns2, me_id, my_size, src_items, src, size, i + 1)
  ELSE [ns EXCEPT ![me_id] = IncreaseSize(@, size)]

\* The entries are appended and the moved children keep their old parent
CopyNWithoutAdopt(ns, me_id, src_items, src, size) ==
  [ns EXCEPT ![me_id] =
     IncreaseSize([@ EXCEPT !.items = MemmoveItems(@, GetSize(ns[me_id]), src_items, src, size)],
                  size)]

CopyNFrom(ns, me_id, src_items, src, size) ==
  CopyNFromLoop(ns, me_id, GetSize(ns[me_id]), src_items, src, size, 0)

InternalMoveHalfTo(ns, node_id, recipient_id) ==
  LET node == ns[node_id]
      size == GetSize(node)
      remain_size == GetMinSize(node)
      num_copy_items == size - remain_size
      ns1 == CopyNFrom(ns, recipient_id, node.items, remain_size, num_copy_items)
  IN [ns1 EXCEPT ![node_id] = IncreaseSize(@, 0 - num_copy_items)]

RemoveAndDeleteRecord(node, key) ==
  IF ~LeafLookup(node, key)[1]
  THEN node
  ELSE LET key_index == KeyIndex(node, key) IN
       IF key_index < GetSize(node) /\ key = KeyAt(node, key_index)
       THEN LET st == key_index + 1
                size_moved == GetSize(node) - 1 - st + 1
            IN IncreaseSize([node EXCEPT !.items =
                               MemmoveItems(node.items, key_index, node.items, st, size_moved)],
                            0 - 1)
       ELSE node

InternalRemove(node, index) ==
  LET move_size == GetSize(node) - 1 - index IN
  IncreaseSize([node EXCEPT !.items =
                  MemmoveItems(node.items, index, node.items, index + 1, move_size)],
               0 - 1)

\* ---- BPlusTree: the tree as a value ---------------------------------------
\* nodes: the pages; root: root_page_id_; next: the next page id NewPage
\* allocates; ok: FALSE once an assert of the code has failed.
\* log: the rebalancing steps taken by the call so far (observation only)
Tree(ns, root, next, ok) ==
  [nodes |-> ns, root |-> root, next |-> next, ok |-> ok, log |-> << >>]

IsEmpty(t) == t.root = INVALID_PAGE_ID

RECURSIVE FindLeafPageLoop(_, _, _, _)
FindLeafPageLoop(ns, current, key, leftMost) ==
  IF IsLeafPage(ns[current])
  THEN current
  ELSE FindLeafPageLoop(ns,
                        IF leftMost THEN ValueAt(ns[current], 0)
                                    ELSE InternalLookup(ns[current], key),
                        key, leftMost)

FindLeafPage(t, key, leftMost) == FindLeafPageLoop(t.nodes, t.root, key, leftMost)

\* GetValue: <<found, value>>
GetValue(t, key) ==
  IF IsEmpty(t)
  THEN <<FALSE, 0>>
  ELSE LeafLookup(t.nodes[FindLeafPage(t, key, FALSE)], key)

StartNewTree(t, key, value) ==
  LET new_root_id == t.next
      root_node == LeafInit(new_root_id, INVALID_PAGE_ID, leaf_max_size_)
  IN [t EXCEPT !.nodes[new_root_id] = LeafInsert(root_node, key, value),
               !.root = new_root_id,
               !.next = @ + 1]

\* Split: the new page gets the id t.next
Split(t, node_id) ==
  LET new_page_id == t.next
      node == t.nodes[node_id]
      new_max_size == IF IsLeafPage(ZeroPage) THEN leaf_max_size_ ELSE internal_max_size_
      okay == GetSize(node) = GetMaxSize(node) + 1
  IN IF IsLeafPage(node)
     THEN LET halves == LeafMoveHalfTo(node, LeafInit(new_page_id, INVALID_PAGE_ID, new_max_size))
          IN [t EXCEPT !.nodes[node_id] = halves[1],
                       !.nodes[new_page_id] = halves[2],
                       !.next = @ + 1,
                       !.ok = @ /\ okay]
     ELSE LET ns1 == [t.nodes EXCEPT ![new_page_id] =
                         InternalInit(new_page_id, INVALID_PAGE_ID, new_max_size)]
          IN [t EXCEPT !.nodes = InternalMoveHalfTo(ns1, node_id, new_page_id),
                       !.next = @ + 1,
                       !.ok = @ /\ okay]

RECURSIVE InsertIntoParent(_, _, _, _)
InsertIntoParent(t, old_node_id, key, new_node_id) ==
  IF IsRootPage(t.nodes[old_node_id])
  THEN LET new_root_id == t.next
           root_node == PopulateNewRoot(
                          InternalInit(new_root_id, INVALID_PAGE_ID, internal_max_size_),
                          old_node_id, key, new_node_id)
       IN [t EXCEPT !.nodes[new_root_id] = root_node,
                    !.nodes[old_node_id].parent_page_id = new_root_id,
                    !.nodes[new_node_id].parent_page_id = new_root_id,
                    !.root = new_root_id,
                    !.next = @ + 1]
  ELSE LET parent_id == t.nodes[old_node_id].parent_page_id
           t1 == [t EXCEPT !.nodes[parent_id] =
                              InsertNodeAfter(@, old_node_id, key, new_node_id),
                           !.nodes[new_node_id].parent_page_id = parent_id]
       IN IF IsFull(t1.nodes[parent_id])
          THEN LET t2 == Split(t1, parent_id)
                   parent_sibling_id == t1.next
                   separator_key == KeyAt(t2.nodes[parent_sibling_id], 0)
               IN InsertIntoParent(t2, parent_id, separator_key, parent_sibling_id)
          ELSE t1

\* InsertIntoLeaf: [t |-> the tree afterwards, result |-> the returned bool]
InsertIntoLeaf(t, key, value) ==
  LET leaf_id == FindLeafPage(t, key, FALSE)
      old_leaf_size == GetSize(t.nodes[leaf_id])
      t1 == [t EXCEPT !.nodes[leaf_id] = LeafInsert(@, key, value)]
      new_leaf_size == GetSize(t1.nodes[leaf_id])
      inserted == old_leaf_size # new_leaf_size
  IN IF ~IsFull(t1.nodes[leaf_id])
     THEN [t |-> t1, result |-> inserted]
     ELSE LET t2 == Split(t1, leaf_id)
              new_node_id == t1.next
          IN [t |-> InsertIntoParent(t2, leaf_id, KeyAt(t2.nodes[new_node_id], 0), new_node_id),
              result |-> inserted]

Insert(t, key, value) ==
  IF IsEmpty(t)
  THEN [t |-> StartNewTree(t, key, value), result |-> TRUE]
  ELSE InsertIntoLeaf(t, key, value)

\* ---- Merge and redistribution of pages -------------------------------------
\* The first GetSize() pairs of a page's array, in order
ItemsOf(node) == [i \in 1 .. GetSize(node) |-> node.items[i - 1]]

\* Leaf MoveAllTo with CopyAllFrom
LeafMoveAllTo(t, node_id, recipient_id) ==
  LET node == t.nodes[node_id]
      recipient == t.nodes[recipient_id]
      okay == GetSize(node) + GetSize(recipient) <= GetMaxSize(recipient)
      r1 == IncreaseSize([recipient EXCEPT !.items =
                            MemmoveItems(recipient.items, 0, node.items, 0, GetSize(node))],
                         GetSize(node))
      r2 == [r1 EXCEPT !.next_page_id = node.next_page_id]
  IN [t EXCEPT !.nodes[recipient_id] = r2,
               !.nodes[node_id].size = 0,
               !.ok = @ /\ okay,
               !.log = Append(@, [kind |-> "LeafMoveAllTo", from |-> node_id, to |-> recipient_id,
                                  from_items |-> ItemsOf(node),
                                  to_items |-> ItemsOf(recipient),
                                  from_next |-> node.next_page_id])]

InternalMoveAllTo(t, node_id, recipient_id, middle_key) ==
  LET node == t.nodes[node_id]
      recipient == t.nodes[recipient_id]
      okay == GetSize(node) + GetSize(recipient) <= GetMaxSize(recipient)
      ns1 == [t.nodes EXCEPT ![node_id].items[0].key = middle_key]
  IN [t EXCEPT !.nodes = CopyNFrom(ns1, recipient_id, ns1[node_id].items, 0, GetSize(node)),
               !.ok = @ /\ okay,
               !.log = Append(@, [kind |-> "InternalMoveAllTo", from |-> node_id,
                                  to |-> recipient_id])]

MoveAllTo(t, node_id, recipient_id, middle_key) ==
  IF IsLeafPage(t.nodes[node_id])
  THEN LeafMoveAllTo(t, node_id, recipient_id)
  ELSE InternalMoveAllTo(t, node_id, recipient_id, middle_key)

\* Leaf MoveFirstToEndOf with CopyLastFrom
LeafMoveFirstToEndOf(t, node_id, recipient_id) ==
  LET node == t.nodes[node_id]
      recipient == t.nodes[recipient_id]
      first_item == node.items[0]
      r1 == IncreaseSize([recipient EXCEPT !.items[GetSize(recipient)] = first_item], 1)
      n1 == IncreaseSize([node EXCEPT !.items = MemmoveBytes(node.items, 0, 1, GetSize(node) - 1)],
                         0 - 1)
      ns1 == [t.nodes EXCEPT ![recipient_id] = r1, ![node_id] = n1]
      parent_id == n1.parent_page_id
      value_index == ValueIndex(ns1[parent_id], node_id)
      okay == GetSize(node) > 0 /\ GetSize(n1) > 0
  IN [t EXCEPT !.nodes = [ns1 EXCEPT ![parent_id].items[value_index].key = KeyAt(n1, 0)],
               !.ok = @ /\ okay]

\* Leaf MoveLastToFrontOf with CopyFirstFrom
LeafMoveLastToFrontOf(t, node_id, recipient_id) ==
  LET node == t.nodes[node_id]
      recipient == t.nodes[recipient_id]
      okay == GetSize(node) > GetMinSize(node)
      size == GetSize(node)
      last_item == node.items[size - 1]
      r1 == [recipient EXCEPT !.items = MemmoveBytes(recipient.items, 1, 0, GetSize(recipient))]
      n1 == IncreaseSize(IncreaseSize([node EXCEPT !.items[0] = last_item], 1), 0 - 1)
      ns1 == [t.nodes EXCEPT ![recipient_id] = r1, ![node_id] = n1]
      parent_id == n1.parent_page_id
      value_index == ValueIndex(ns1[parent_id], recipient_id)
  IN [t EXCEPT !.nodes = [ns1 EXCEPT ![parent_id].items[value_index].key = last_item.key],
               !.ok = @ /\ okay]

\* Internal MoveFirstToEndOf with CopyLastFrom
InternalMoveFirstToEndOf(t, node_id, recipient_id, middle_key) ==
  LET node == t.nodes[node_id]
      moved_pair == [key |-> middle_key, value |-> ValueAt(node, 0)]
      n1 == IncreaseSize(node, 0 - 1)
      n2 == [n1 EXCEPT !.items = MemmoveItems(n1.items, 0, n1.items, 1, GetSize(n1))]
      ns1 == [t.nodes EXCEPT ![node_id] = n2]
      parent_id == n2.parent_page_id
      value_index == ValueIndex(ns1[parent_id], node_id)
      ns2 == [ns1 EXCEPT ![parent_id].items[value_index].key = KeyAt(n2, 0)]
      ns3 == [ns2 EXCEPT ![recipient_id].items[GetSize(ns2[recipient_id])] = moved_pair]
      ns4 == [ns3 EXCEPT ![moved_pair.value].parent_page_id = recipient_id]
  IN [t EXCEPT !.nodes = [ns4 EXCEPT ![recipient_id] = IncreaseSize(@, 1)]]

\* Internal MoveLastToFrontOf with CopyFirstFrom
InternalMoveLastToFrontOf(t, node_id, recipient_id, middle_key) ==
  LET node == t.nodes[node_id]
      size == GetSize(node)
      moved_pair == [key |-> KeyAt(node, size - 1), value |-> ValueAt(node, size - 1)]
      ns1 == [t.nodes EXCEPT ![recipient_id].items[0].key = middle_key]
      ns2 == [ns1 EXCEPT ![recipient_id].items =
                MemmoveItems(ns1[recipient_id].items, 1, ns1[recipient_id].items, 0, 1)]
      ns3 == [ns2 EXCEPT ![node_id] = IncreaseSize(@, 0 - 1)]
      parent_id == node.parent_page_id
      value_index == ValueIndex(ns3[parent_id], recipient_id)
      ns4 == [ns3 EXCEPT ![parent_id].items[value_index].key = moved_pair.key]
      okay == /\ GetSize(node) > GetMinSize(node)
                 /\ GetSize(ns4[recipient_id]) < GetMinSize(ns4[recipient_id])
      ns5 == [ns4 EXCEPT ![recipient_id].items[0] = moved_pair]
      ns6 == [ns5 EXCEPT ![moved_pair.value].parent_page_id = recipient_id]
  IN [t EXCEPT !.nodes = [ns6 EXCEPT ![recipient_id] = IncreaseSize(@, 1)],
               !.ok = @ /\ okay]

Redistribute(t, neighbor_id, node_id, index) ==
  LET parent == t.nodes[t.nodes[node_id].parent_page_id] IN
  IF index = 0
  THEN LET separator_key == KeyAt(parent, ValueIndex(parent, neighbor_id)) IN
       IF IsLeafPage(t.nodes[neighbor_id])
       THEN LeafMoveFirstToEndOf(t, neighbor_id, node_id)
       ELSE InternalMoveFirstToEndOf(t, neighbor_id, node_id, separator_key)
  ELSE LET separator_key == KeyAt(parent, ValueIndex(parent, node_id)) IN
       IF IsLeafPage(t.nodes[neighbor_id])
       THEN LeafMoveLastToFrontOf(t, neighbor_id, node_id)
       ELSE InternalMoveLastToFrontOf(t, neighbor_id, node_id, separator_key)

\* The buffer pool drops the page; the tree never reads it again.
TreeDeletePage(t, page_id) == [t EXCEPT !.nodes[page_id] = NoNode]

\* A root that is never replaced
KeepRoot(t, old_root_id) == [t |-> t, del |-> FALSE]

\* AdjustRoot: [t |-> the tree afterwards, del |-> the returned bool]
AdjustRoot(t, old_root_id) ==
  LET old_root_node == t.nodes[old_root_id] IN
  IF IsLeafPage(old_root_node) /\ GetSize(old_root_node) = 0
  THEN [t |-> [t EXCEPT !.root = INVALID_PAGE_ID], del |-> TRUE]
  ELSE IF ~IsLeafPage(old_root_node) /\ GetSize(old_root_node) = 1
  THEN LET child == ValueAt(old_root_node, 0) IN
       [t |-> [t EXCEPT !.root = child, !.nodes[child].parent_page_id = INVALID_PAGE_ID],
        del |-> TRUE]
  ELSE [t |-> t, del |-> FALSE]

\* The opposite choice: merge exactly when the two pages do not fit into one
CoalesceWhenTooLarge(node_size, sibling_size, max_size) ==
  sibling_size + node_size > max_size

\* bool coalesce = sibling_node->GetSize() + node->GetSize() <= sibling_node->GetMaxSize()
ShouldCoalesce(node_size, sibling_size, max_size) ==
  sibling_size + node_size <= max_size

RECURSIVE CoalesceOrRedistribute(_, _)
RECURSIVE Coalesce(_, _, _, _, _)

Coalesce(t, neighbor_id, node_id, parent_id, index) ==
  LET to_id == IF index = 0 THEN node_id ELSE neighbor_id
      from_id == IF index = 0 THEN neighbor_id ELSE node_id
      parent_node == t.nodes[parent_id]
      node_index == ValueIndex(parent_node, from_id)
      separator_key == KeyAt(parent_node, node_index)
      t1 == MoveAllTo(t, from_id, to_id, separator_key)
      t2 == [t1 EXCEPT !.nodes[parent_id] = InternalRemove(@, node_index)]
  IN IF ~IsHalfFull(t2.nodes[parent_id])
     THEN CoalesceOrRedistribute(t2, parent_id)
     ELSE [t |-> t2, del |-> FALSE]

CoalesceOrRedistribute(t, node_id) ==
  LET node == t.nodes[node_id] IN
  IF IsRootPage(node)
  THEN AdjustRoot(t, node_id)
  ELSE LET parent_id == node.parent_page_id
           parent_node == t.nodes[parent_id]
           node_index == ValueIndex(parent_node, node_id)
           sibling_index == IF node_index = 0 THEN 1 ELSE node_index - 1
           sibling_id == ValueAt(parent_node, sibling_index)
           sibling_node == t.nodes[sibling_id]
           coalesce == ShouldCoalesce(GetSize(node), GetSize(sibling_node),
                                      GetMaxSize(sibling_node))
           tl == [t EXCEPT !.log = Append(@,
                    [kind |-> "CoalesceOrRedistribute", node |-> node_id,
                     parent |-> parent_id, children |-> GetSize(parent_node),
                     node_index |-> node_index, sibling_index |-> sibling_index,
                     sibling |-> sibling_id, is_leaf |-> IsLeafPage(node),
                     node_size |-> GetSize(node),
                     sibling_size |-> GetSize(sibling_node),
                     max_size |-> GetMaxSize(sibling_node), coalesce |-> coalesce])]
       IN IF coalesce
          THEN LET r == Coalesce(tl, sibling_id, node_id, parent_id, node_index)
                   t1 == IF r.del THEN TreeDeletePage(r.t, parent_id) ELSE r.t
                   t2 == IF node_index = 0 THEN TreeDeletePage(t1, sibling_id) ELSE t1
               IN [t |-> t2, del |-> node_index # 0]
          ELSE [t |-> Redistribute(tl, sibling_id, node_id, node_index), del |-> FALSE]

Remove(t, key) ==
  IF IsEmpty(t)
  THEN t
  ELSE LET leaf_id == FindLeafPage(t, key, FALSE)
           okay == GetSize(t.nodes[leaf_id]) > 0
           t1 == [t EXCEPT !.nodes[leaf_id] = RemoveAndDeleteRecord(@, key),
                           !.ok = @ /\ okay]
       IN IF IsHalfFull(t1.nodes[leaf_id])
          THEN t1
          ELSE LET r == CoalesceOrRedistribute(t1, leaf_id) IN
               IF r.del THEN TreeDeletePage(r.t, leaf_id) ELSE r.t

\* ---- IndexIterator: begin(), operator*, operator++, isEnd() ----------------
isEnd(ns, leaf_id, index) ==
  ns[leaf_id].next_page_id = INVALID_PAGE_ID /\ index = GetSize(ns[leaf_id])

\* The keys a scan from iterator position (leaf_id, index) yields, in order;
\* fuel bounds the number of increments followed.
RECURSIVE IterateFrom(_, _, _, _)
IterateFrom(ns, leaf_id, index, fuel) ==
  IF fuel = 0 \/ isEnd(ns, leaf_id, index)
  THEN << >>
  ELSE LET leaf == ns[leaf_id]
           next_id == leaf.next_page_id
           advance == index + 1 >= GetSize(leaf) /\ next_id # INVALID_PAGE_ID
       IN <<leaf.items[index].key>> \o
          IterateFrom(ns, IF advance THEN next_id ELSE leaf_id,
                          IF advance THEN 0 ELSE index + 1, fuel - 1)

\* begin() ... isEnd() on a non-empty tree
IterateAll(t) == IterateFrom(t.nodes, FindLeafPage(t, 0, TRUE), 0, 2 * MaxKey + 2)

\* The leaves reached from the leftmost leaf by next_page_id
RECURSIVE LeafChainFrom(_, _, _)
LeafChainFrom(ns, leaf_id, fuel) ==
  IF leaf_id = INVALID_PAGE_ID \/ fuel = 0
  THEN << >>
  ELSE <<leaf_id>> \o LeafChainFrom(ns, ns[leaf_id].next_page_id, fuel - 1)

LeafChain(t) == LeafChainFrom(t.nodes, FindLeafPage(t, 0, TRUE), MaxTreePages + 1)

\* The pages reachable from the root through child pointers
RECURSIVE Reachable(_, _, _)
Reachable(ns, page_id, fuel) ==
  IF fuel = 0 \/ IsLeafPage(ns[page_id])
  THEN {page_id}
  ELSE {page_id} \cup UNION {Reachable(ns, ns[page_id].items[i].value, fuel - 1) :
                              i \in 0 .. (GetSize(ns[page_id]) - 1)}

TreePages(t) == IF IsEmpty(t) THEN {} ELSE Reachable(t.nodes, t.root, MaxTreePages)

\* ---- The tree's public calls as actions ------------------------------------
CurTree == Tree(nodes, root_page_id_, tree_next_page_id, TRUE)

\* The record of a call: aborted is TRUE when an assert of the code failed in it.
TreeOp(name, key, value, result, aborted) ==
  [op |-> name, key |-> key, value |-> value, result |-> result, aborted |-> aborted]

TreeInit ==
  /\ nodes = [p \in TreePageIds |-> NoNode]
  /\ root_page_id_ = INVALID_PAGE_ID
  /\ tree_next_page_id = 1
  /\ tree_op = TreeOp("init", 0, 0, TRUE, FALSE)
  /\ shadow = << >>
  /\ only_distinct = TRUE
  /\ ops = 0

Threads == {1, 2}

ThreadIdle ==
  [pc |-> "idle", key |-> 0, value |-> 0, snap |-> << >>, ret |-> FALSE,
   calls |-> 0, overlap |-> FALSE]

ConcInit ==
  /\ root_page_mutex_ = 0
  /\ threads = [th \in Threads |-> ThreadIdle]

\* Write a tree value back to the pages; an assert that failed ends the process.
SetTree(t, name, key, value, result) ==
  /\ t.next <= MaxTreePages + 1
  /\ IF t.ok
     THEN /\ nodes' = t.nodes
          /\ root_page_id_' = t.root
          /\ tree_next_page_id' = t.next
          /\ tree_op' = TreeOp(name, key, value, result, FALSE)
     ELSE /\ tree_op' = TreeOp(name, key, value, FALSE, TRUE)
          /\ UNCHANGED <<nodes, root_page_id_, tree_next_page_id>>

\* bool Insert(key, value) by one thread: the whole call under root_page_mutex_.
\* A key that is not stored is inserted with its first RID.
TreeInsert ==
  \E key \in Keys : \E value \in ValuesOf(key) :
    LET r == Insert(CurTree, key, value) IN
    /\ ~tree_op.aborted
    /\ ops < MaxOps
    /\ ops' = ops + 1
    /\ key \notin DOMAIN shadow => value = key * 10 + 1
    /\ SetTree(r.t, "insert", key, value, r.result)
    /\ shadow' = IF key \notin DOMAIN shadow THEN MapPut(shadow, key, value) ELSE shadow
    /\ only_distinct' = (only_distinct /\ key \notin DOMAIN shadow)
    /\ UNCHANGED <<leaf_max_size_, internal_max_size_, bpmVars, concVars, syncVars>>

\* void Remove(key)
TreeRemove ==
  \E key \in Keys :
    /\ ~tree_op.aborted
    /\ ops < MaxOps
    /\ ops' = ops + 1
    /\ SetTree(Remove(CurTree, key), "remove", key, 0, TRUE)
    /\ shadow' = MapErase(shadow, key)
    /\ only_distinct' = FALSE
    /\ UNCHANGED <<leaf_max_size_, internal_max_size_, bpmVars, concVars, syncVars>>

TreeNext == TreeInsert \/ TreeRemove

\* ---- Deletes from a tree grown by ascending inserts ---------------------------
\* The keys are inserted in ascending order from 1 or in descending order from
\* MaxGrowKey into the empty tree, then keys are removed in any order: the
\* histories in which a page has three children and internal pages split,
\* merge and borrow from either side.
MaxGrowKey == 10
MaxShrinkRemoves == 4

\* The key of the next insert: the first one fixes the direction
GrowKeys ==
  IF tree_history = << >> THEN {1, MaxGrowKey}
  ELSE IF tree_history[1][2] = 1 THEN {Len(tree_history) + 1}
  ELSE {MaxGrowKey - Len(tree_history)}

Removes == Cardinality({i \in 1 .. Len(tree_history) : tree_history[i][1] = "remove"})

ScenarioInit ==
  /\ tree_history = << >>
  /\ tree_log = << >>

ScenarioRest ==
  UNCHANGED <<leaf_max_size_, internal_max_size_, bpmVars, concVars, lockVars, rwVars,
              deallocated, replacer_op, poolVars, catalogVars, pinVars, cvVars>>

\* Insert(key, value) with the next key
GrowInsert ==
  \E key \in GrowKeys :
  LET value == key * 10 + 1
      r == Insert(CurTree, key, value) IN
  /\ ~tree_op.aborted
  /\ key \in 1 .. MaxGrowKey
  /\ Removes = 0
  /\ ops' = ops + 1
  /\ SetTree(r.t, "insert", key, value, r.result)
  /\ shadow' = IF key \notin DOMAIN shadow THEN MapPut(shadow, key, value) ELSE shadow
  /\ only_distinct' = (only_distinct /\ key \notin DOMAIN shadow)
  /\ tree_history' = Append(tree_history, <<"insert", key>>)
  /\ tree_log' = r.t.log
  /\ ScenarioRest

\* Remove(key) of any key inserted before
ShrinkRemove ==
  \E key \in 1 .. MaxGrowKey :
    LET t == Remove(CurTree, key) IN
    /\ ~tree_op.aborted
    /\ Removes < MaxShrinkRemoves
    /\ \E i \in 1 .. Len(tree_history) : tree_history[i] = <<"insert", key>>
    /\ ops' = ops + 1
    /\ SetTree(t, "remove", key, 0, TRUE)
    /\ shadow' = MapErase(shadow, key)
    /\ only_distinct' = FALSE
    /\ tree_history' = Append(tree_history, <<"remove", key>>)
    /\ tree_log' = t.log
    /\ ScenarioRest

ScenarioNext == GrowInsert \/ ShrinkRemove

\* ---- Pins and latches of a call ---------------------------------------------
\* What a call does to the pin counts and the page latches, on a pool that
\* has a frame for every page. A value ps holds the pin counts, the latch the
\* calling thread holds on each page ("N" none, "R" read, "W" write), the
\* transaction's page set, and the accesses to page contents made so far.
PinState(pins) ==
  [pins |-> pins, latches |-> [p \in TreePageIds |-> "N"], page_set |-> << >>,
   log |-> << >>]

\* FetchPage of a tree page, and NewPage: the frame's pin count goes up by one.
TreeFetchPage(ps, page_id) == [ps EXCEPT !.pins[page_id] = @ + 1]

\* UnpinPage: refused when the pin count is already 0.
TreeUnpinPage(ps, page_id) ==
  IF ps.pins[page_id] <= 0 THEN ps ELSE [ps EXCEPT !.pins[page_id] = @ - 1]

\* The caller reads or writes the contents of page_id.
Access(ps, ns, page_id) ==
  [ps EXCEPT !.log = Append(@, [page_id |-> page_id,
                                pin_count |-> ps.pins[page_id],
                                latch |-> ps.latches[page_id],
                                held |-> {q \in TreePageIds : ps.latches[q] # "N"},
                                is_leaf |-> IsLeafPage(ns[page_id])])]

\* ReleaseLatchedPages: unlatch and unpin the page set from the front.
RECURSIVE ReleaseLatchedPages(_)
ReleaseLatchedPages(ps) ==
  IF ps.page_set = << >> THEN ps
  ELSE LET page_id == Head(ps.page_set) IN
       ReleaseLatchedPages(
         TreeUnpinPage([ps EXCEPT !.latches[page_id] = "N", !.page_set = Tail(@)], page_id))

AcquireLatchOnPage(ps, ns, page_id, op) ==
  LET node == ns[page_id]
      latched == [ps EXCEPT !.latches[page_id] = IF op = "SEARCH" THEN "R" ELSE "W"]
      safe == IF op = "SEARCH" THEN TRUE
              ELSE IF op = "INSERT" THEN GetSize(node) < GetMaxSize(node)
              ELSE GetSize(node) > GetMinSize(node)
      released == IF safe THEN ReleaseLatchedPages(latched) ELSE latched
  IN [released EXCEPT !.page_set = Append(@, page_id)]

\* The while loop of FindLeafPage below the page current, an internal page.
\* Without a transaction the child that was just fetched is unpinned at once.
RECURSIVE FindLeafPageDescend(_, _, _, _, _, _)
FindLeafPageDescend(ps, ns, current, key, has_txn, op) ==
  LET ps1 == Access(ps, ns, current)
      child_ptr == InternalLookup(ns[current], key)
      ps2 == TreeFetchPage(ps1, child_ptr)
      ps3 == IF has_txn THEN AcquireLatchOnPage(ps2, ns, child_ptr, op)
             ELSE TreeUnpinPage(ps2, child_ptr)
      ps4 == Access(ps3, ns, child_ptr)
  IN IF IsLeafPage(ns[child_ptr]) THEN ps4
     ELSE FindLeafPageDescend(ps4, ns, child_ptr, key, has_txn, op)

\* FindLeafPage on a non-empty tree: the root is fetched and stays pinned.
FindLeafPagePins(ps, t, key, has_txn, op) ==
  LET ps1 == TreeFetchPage(ps, t.root)
      ps2 == IF has_txn THEN AcquireLatchOnPage(ps1, t.nodes, t.root, op) ELSE ps1
      ps3 == Access(ps2, t.nodes, t.root)
  IN IF IsLeafPage(t.nodes[t.root]) THEN ps3
     ELSE FindLeafPageDescend(ps3, t.nodes, t.root, key, has_txn, op)

GetValuePins(ps, t, key, has_txn) ==
  IF IsEmpty(t) THEN ps
  ELSE LET leaf_id == FindLeafPage(t, key, FALSE)
           ps1 == Access(FindLeafPagePins(ps, t, key, has_txn, "SEARCH"), t.nodes, leaf_id)
       IN IF has_txn THEN ReleaseLatchedPages(ps1) ELSE TreeUnpinPage(ps1, leaf_id)

\* Insert calls InsertIntoLeaf(key, value): the transaction is not passed on.
\* Split's NewPage is unpinned by InsertIntoLeaf; InsertIntoParent unpins the
\* pages it fetches or allocates itself, each once, and leaves the counts as
\* they were.
InsertPins(ps, t, key, value) ==
  IF IsEmpty(t)
  THEN TreeUnpinPage(Access(TreeFetchPage(ps, t.next), StartNewTree(t, key, value).nodes, t.next),
                     t.next)
  ELSE LET leaf_id == FindLeafPage(t, key, FALSE)
           ps1 == Access(FindLeafPagePins(ps, t, key, FALSE, "INSERT"), t.nodes, leaf_id)
       IN IF ~IsFull(LeafInsert(t.nodes[leaf_id], key, value))
          THEN TreeUnpinPage(ps1, leaf_id)
          ELSE LET new_page_id == t.next
                   ps2 == TreeFetchPage(ps1, new_page_id)
                   ps3 == TreeUnpinPage(ps2, new_page_id)
               IN TreeUnpinPage(ps3, leaf_id)

\* Remove: CoalesceOrRedistribute, Coalesce, Redistribute and AdjustRoot unpin
\* the pages they fetch themselves, each once; DeletePage changes no pin count
\* (it is refused on a pinned page).
RemovePins(ps, t, key, has_txn) ==
  IF IsEmpty(t) THEN ps
  ELSE LET leaf_id == FindLeafPage(t, key, FALSE)
           ps1 == Access(FindLeafPagePins(ps, t, key, has_txn, "DELETE"), t.nodes, leaf_id)
       IN IF has_txn THEN ReleaseLatchedPages(ps1) ELSE TreeUnpinPage(ps1, leaf_id)

TreeCall(name, has_txn, was_empty, ps) ==
  [op |-> name, has_txn |-> has_txn, was_empty |-> was_empty,
   accesses |-> ps.log, latches |-> ps.latches]

PinInit ==
  /\ tree_pins = [p \in TreePageIds |-> 0]
  /\ tree_call = TreeCall("init", FALSE, TRUE, PinState(<< >>))

PinRest ==
  UNCHANGED <<leaf_max_size_, internal_max_size_, bpmVars, concVars, lockVars, rwVars,
              deallocated, replacer_op, poolVars, catalogVars, scenarioVars,
              cvVars>>

SetPins(name, has_txn, ps) ==
  /\ tree_pins' = ps.pins
  /\ tree_call' = TreeCall(name, has_txn, IsEmpty(CurTree), ps)

\* GetValue(key, &result, transaction), with or without a transaction
PinGetValue ==
  \E key \in Keys, has_txn \in BOOLEAN :
    LET r == GetValue(CurTree, key) IN
    /\ ~tree_op.aborted
    /\ ops < MaxOps
    /\ ops' = ops + 1
    /\ tree_op' = TreeOp("get", key, r[2], r[1], FALSE)
    /\ SetPins("get", has_txn, GetValuePins(PinState(tree_pins), CurTree, key, has_txn))
    /\ UNCHANGED <<nodes, root_page_id_, tree_next_page_id, shadow, only_distinct>>
    /\ PinRest

\* Insert(key, value, transaction)
PinInsert ==
  \E key \in Keys, has_txn \in BOOLEAN :
    LET value == key * 10 + 1
        r == Insert(CurTree, key, value)
    IN
    /\ ~tree_op.aborted
    /\ ops < MaxOps
    /\ ops' = ops + 1
    /\ SetTree(r.t, "insert", key, value, r.result)
    /\ SetPins("insert", has_txn, InsertPins(PinState(tree_pins), CurTree, key, value))
    /\ shadow' = IF key \notin DOMAIN shadow THEN MapPut(shadow, key, value) ELSE shadow
    /\ only_distinct' = (only_distinct /\ key \notin DOMAIN shadow)
    /\ PinRest

\* Remove(key, transaction)
PinRemove ==
  \E key \in Keys, has_txn \in BOOLEAN :
    /\ ~tree_op.aborted
    /\ ops < MaxOps
    /\ ops' = ops + 1
    /\ SetTree(Remove(CurTree, key), "remove", key, 0, TRUE)
    /\ SetPins("remove", has_txn, RemovePins(PinState(tree_pins), CurTree, key, has_txn))
    /\ shadow' = MapErase(shadow, key)
    /\ only_distinct' = FALSE
    /\ PinRest

PinNext == PinGetValue \/ PinInsert \/ PinRemove

\* ---- Insert called by two threads ------------------------------------------
\* A thread's Insert call is: enter, lock root_page_mutex_ (the lock_guard),
\* read the tree, write the pages the insertion changes, unlock and return.
MaxCalls == 2
MaxConcKey == 3

ConcKeys == 1 .. MaxConcKey

\* A mutex that never blocks: the calls are not serialised.
NoMutex(mutex) == TRUE

\* std::mutex::lock proceeds only when no thread holds the mutex.
MutexIsFree(mutex) == mutex = 0

\* A thread enters Insert(key, value); thread th inserts key with its own RID.
InsertCall(th) ==
  \E key \in ConcKeys :
    /\ ~tree_op.aborted
    /\ threads[th].pc = "idle"
    /\ threads[th].calls < MaxCalls
    /\ threads' = [threads EXCEPT ![th] =
                     [pc |-> "lock", key |-> key, value |-> key * 10 + th, snap |-> << >>,
                      ret |-> FALSE, calls |-> threads[th].calls + 1,
                      overlap |-> \E o \in Threads \ {th} : threads[o].pc # "idle"]]
    /\ UNCHANGED <<root_page_mutex_, treeVars, bpmVars, syncVars>>

\* std::lock_guard<std::mutex> guard(root_page_mutex_)
InsertLock(th) ==
  /\ ~tree_op.aborted
  /\ threads[th].pc = "lock"
  /\ MutexIsFree(root_page_mutex_)
  /\ root_page_mutex_' = th
  /\ threads' = [threads EXCEPT ![th].pc = "read"]
  /\ UNCHANGED <<treeVars, bpmVars, syncVars>>

\* The call reads the root id and the pages on its path.
InsertRead(th) ==
  /\ ~tree_op.aborted
  /\ threads[th].pc = "read"
  /\ threads' = [threads EXCEPT ![th].pc = "write", ![th].snap = CurTree]
  /\ UNCHANGED <<root_page_mutex_, treeVars, bpmVars, syncVars>>

\* The call writes the pages and the root id that the insertion changes.
InsertWrite(th) ==
  LET snap == threads[th].snap
      r == Insert(snap, threads[th].key, threads[th].value)
  IN
  /\ ~tree_op.aborted
  /\ threads[th].pc = "write"
  /\ r.t.next <= MaxTreePages + 1
  /\ IF r.t.ok
     THEN /\ nodes' = [p \in TreePageIds |->
                         IF r.t.nodes[p] # snap.nodes[p] THEN r.t.nodes[p] ELSE nodes[p]]
          /\ root_page_id_' = IF r.t.root # snap.root THEN r.t.root ELSE root_page_id_
          /\ tree_next_page_id' = IF r.t.next > tree_next_page_id
                                  THEN r.t.next ELSE tree_next_page_id
          /\ threads' = [threads EXCEPT ![th].pc = "unlock", ![th].ret = r.result,
                                        ![th].snap = << >>]
          /\ UNCHANGED tree_op
     ELSE /\ tree_op' = TreeOp("insert", threads[th].key, threads[th].value, FALSE, TRUE)
          /\ UNCHANGED <<nodes, root_page_id_, tree_next_page_id, threads>>
  /\ UNCHANGED <<root_page_mutex_, leaf_max_size_, internal_max_size_, shadow,
                 only_distinct, ops, bpmVars, syncVars>>

\* The lock_guard goes out of scope and Insert returns; shadow records the
\* calls that returned true.
InsertReturn(th) ==
  LET me == threads[th] IN
  /\ ~tree_op.aborted
  /\ me.pc = "unlock"
  /\ root_page_mutex_' = (IF root_page_mutex_ = th THEN 0 ELSE root_page_mutex_)
  /\ threads' = [threads EXCEPT ![th].pc = "idle"]
  /\ tree_op' = TreeOp("insert", me.key, me.value, me.ret, FALSE)
  /\ shadow' = IF me.ret THEN MapPut(shadow, me.key, me.value) ELSE shadow
  /\ UNCHANGED <<nodes, root_page_id_, tree_next_page_id, leaf_max_size_,
                 internal_max_size_, only_distinct, ops, bpmVars, syncVars>>

ConcNext ==
  \E th \in Threads :
    \/ InsertCall(th)
    \/ InsertLock(th)
    \/ InsertRead(th)
    \/ InsertWrite(th)
    \/ InsertReturn(th)

\* ------------------------------------------------------------------------
\* LockManager (src/concurrency/lock_manager.cpp)
\* ------------------------------------------------------------------------
MaxTxn == 2
MaxRid == 1
MaxLockOps == 4

\* Transactions and RIDs of the general specification, and the wider sets the
\* variables range over (used by the specifications of three transactions).
LockTxns == 1 .. MaxTxn
AllTxns == 1 .. (MaxTxn + 1)
LockRids == 1 .. MaxRid
AllRids == 1 .. (MaxRid + 2)

IsolationLevels == {"READ_UNCOMMITTED", "READ_COMMITTED", "REPEATABLE_READ"}

\* txn_id_t txn_id = -1: no waiting request seen in a queue.
NoWaiter == -1

LockRequest(txn_id, lock_mode, granted) ==
  [txn_id_ |-> txn_id, lock_mode_ |-> lock_mode, granted_ |-> granted]

\* lock_table_.find(rid) == lock_table_.end()
NoQueue == [exists |-> FALSE, request_queue_ |-> << >>, upgrading_ |-> FALSE]

NewQueue(rqst) == [exists |-> TRUE, request_queue_ |-> <<rqst>>, upgrading_ |-> FALSE]

NewTxn(isolation_level) ==
  [state |-> "GROWING", isolation_level |-> isolation_level,
   shared_lock_set |-> {}, exclusive_lock_set |-> {}]

IsSharedLocked(txn, rid) == rid \in txn.shared_lock_set

IsExclusiveLocked(txn, rid) == rid \in txn.exclusive_lock_set

\* Every transaction may lock, whatever its state.
AlwaysValidToLock(txn) == TRUE

IsTxnValidToLock(txn) == txn.state = "GROWING"

\* A release that leaves the state as it is.
KeepState(state) == state

\* if (txn->GetState() == GROWING) txn->SetState(SHRINKING) in Unlock
StateAfterUnlock(state) == IF state = "GROWING" THEN "SHRINKING" ELSE state

\* The predicate LockShared waits on: every request before the caller's is a
\* granted shared one.
RECURSIVE SharedPredicateLoop(_, _, _)
SharedPredicateLoop(q, i, txn_id) ==
  IF i > Len(q) THEN FALSE
  ELSE IF q[i].txn_id_ = txn_id THEN TRUE
  ELSE IF (~q[i].granted_) \/ q[i].lock_mode_ = "EXCLUSIVE" THEN FALSE
  ELSE SharedPredicateLoop(q, i + 1, txn_id)

SharedPredicate(q, txn_id) == SharedPredicateLoop(q, 1, txn_id)

\* A predicate that lets every exclusive request through.
AnyPosition(q, txn_id) == TRUE

\* The predicate LockExclusive waits on: the caller's id is at the head.
ExclusivePredicate(q, txn_id) == q[1].txn_id_ = txn_id

\* request_queue_.remove_if(txn id matches)
RemoveIf(q, txn_id) == SelectSeq(q, LAMBDA r : r.txn_id_ # txn_id)

\* Position of the first request of txn_id in the queue, 0 when there is none.
FirstIndexOf(q, txn_id) ==
  IF \E i \in 1 .. Len(q) : q[i].txn_id_ = txn_id
    THEN CHOOSE i \in 1 .. Len(q) :
           /\ q[i].txn_id_ = txn_id
           /\ \A j \in 1 .. (i - 1) : q[j].txn_id_ # txn_id
    ELSE 0

\* request_queue_.splice(end, request_queue_, iter)
SpliceToEnd(q, i) ==
  [j \in 1 .. Len(q) |->
     IF j < i THEN q[j] ELSE IF j < Len(q) THEN q[j + 1] ELSE q[i]]

\* lock_rqst->granted_ = true in LockShared. lock_rqst points at the loop
\* variable of the predicate's range-for, a copy that is dead when the write
\* happens: the write may miss the queue (written FALSE) or, were the compiler
\* to keep the reference, reach the caller's request (written TRUE).
GrantShared(q, txn_id, written) ==
  LET i == FirstIndexOf(q, txn_id) IN
  IF written /\ i > 0 THEN [q EXCEPT ![i].granted_ = TRUE] ELSE q

\* request_queue_.front().granted_ = true
GrantFront(q) == [q EXCEPT ![1].granted_ = TRUE]

\* ---- deadlock detection ----
SetMin(S) == CHOOSE x \in S : \A y \in S : x <= y

\* The graph-building loop of HasCycle over one queue: the granted requests
\* in order, and the last request that is not granted.
RECURSIVE WaitForVec(_, _)
WaitForVec(q, i) ==
  IF i > Len(q) THEN << >>
  ELSE IF q[i].granted_ THEN <<q[i].txn_id_>> \o WaitForVec(q, i + 1)
  ELSE WaitForVec(q, i + 1)

RECURSIVE LastWaiter(_, _, _)
LastWaiter(q, i, txn_id) ==
  IF i > Len(q) THEN txn_id
  ELSE LastWaiter(q, i + 1, IF q[i].granted_ THEN txn_id ELSE q[i].txn_id_)

\* waits_for_.emplace(txn_id, wait_for_vec) for every queue, in the order the
\* unordered_map is iterated; emplace keeps an entry that already exists.
RECURSIVE BuildWaitsFor(_, _, _)
BuildWaitsFor(wf, table, order) ==
  IF order = << >> THEN wf
  ELSE LET q == table[Head(order)].request_queue_
           txn_id == LastWaiter(q, 1, NoWaiter)
           wf1 == IF table[Head(order)].exists /\ txn_id # NoWaiter
                     /\ txn_id \notin DOMAIN wf
                    THEN MapPut(wf, txn_id, WaitForVec(q, 1))
                    ELSE wf
       IN BuildWaitsFor(wf1, table, Tail(order))

MinUnvisitedTxn(wf, visited) == SetMin(DOMAIN wf \ visited)

removeFromVector(vec, x) == SelectSeq(vec, LAMBDA y : y # x)

\* dfs: st holds visited, cycle, in_cycle and the outcome (found, victim).
RECURSIVE dfs(_, _, _)
RECURSIVE dfsLoop(_, _, _, _)
dfs(wf, txn_id, st) ==
  IF txn_id \notin DOMAIN wf THEN [st EXCEPT !.found = FALSE]
  ELSE dfsLoop(wf, txn_id, 1, st)

dfsLoop(wf, txn_id, i, st) ==
  IF i > Len(wf[txn_id]) THEN [st EXCEPT !.found = FALSE]
  ELSE LET neighbor == wf[txn_id][i] IN
    IF neighbor \in st.in_cycle
      THEN [st EXCEPT !.found = TRUE, !.victim = SetMin(SeqToSet(st.cycle))]
    ELSE IF neighbor \notin st.visited
      THEN LET st1 == [st EXCEPT !.visited = @ \cup {neighbor},
                                 !.in_cycle = @ \cup {neighbor},
                                 !.cycle = Append(@, neighbor)]
               r == dfs(wf, neighbor, st1)
           IN IF r.found THEN r
              ELSE dfsLoop(wf, txn_id, i + 1,
                           [r EXCEPT !.in_cycle = @ \ {neighbor},
                                     !.cycle = removeFromVector(@, neighbor)])
    ELSE dfsLoop(wf, txn_id, i + 1, st)

\* The while loop of HasCycle over the graph wf; the result is
\* [found, victim, cycle].
RECURSIVE HasCycleLoop(_, _)
HasCycleLoop(wf, visited) ==
  IF Cardinality(visited) >= Cardinality(DOMAIN wf)
    THEN [found |-> FALSE, victim |-> NoWaiter, cycle |-> << >>]
  ELSE LET min_txn_id == MinUnvisitedTxn(wf, visited)
           st == [visited |-> visited \cup {min_txn_id}, in_cycle |-> {min_txn_id},
                  cycle |-> <<min_txn_id>>, found |-> FALSE, victim |-> NoWaiter]
           r == dfs(wf, min_txn_id, st)
       IN IF r.found THEN [found |-> TRUE, victim |-> r.victim, cycle |-> r.cycle]
          ELSE HasCycleLoop(wf, r.visited)

HasCycle(wf) ==
  IF DOMAIN wf = {} THEN [found |-> FALSE, victim |-> NoWaiter, cycle |-> << >>]
  ELSE HasCycleLoop(wf, {})

\* ---- the calls ----
\* The record of the last lock-manager step. result is "true" or "false" for
\* a call that returned, "throw" for one that left by an exception, "wait"
\* for one that blocked on the condition variable, "pending" inside
\* LockUpgrade, "hang" for a thread stuck on latch_, and "assert" when an
\* assert of the code failed (the process is gone).
LockOp(op, txn, rid, result, reason, waited) ==
  [op |-> op, txn |-> txn, rid |-> rid, result |-> result, reason |-> reason,
   waited |-> waited]

LmIdle == [pc |-> "idle", rid |-> 0, via_upgrade |-> FALSE]

LockInit ==
  /\ lock_table_ = [r \in AllRids |-> NoQueue]
  /\ waits_for_ = << >>
  /\ latch_ = 0
  /\ lm_threads = [t \in AllTxns |-> LmIdle]
  /\ lock_op = LockOp("init", 0, 0, "true", "", FALSE)

\* A thread can take latch_ and the process is alive.
LatchFree == latch_ = 0 /\ lock_op.result # "assert"

\* The caller's side of a new call by transaction t.
CanCall(t) ==
  /\ LatchFree
  /\ lm_threads[t].pc = "idle"
  /\ lock_ops > 0

AddShared(txns, t, rid) == [txns EXCEPT ![t].shared_lock_set = @ \cup {rid}]

AddExclusive(txns, t, rid) == [txns EXCEPT ![t].exclusive_lock_set = @ \cup {rid}]

\* IsTxnValidToLock failing: the state becomes ABORTED and the call throws.
ThrowOnShrinking(t, rid, op) ==
  /\ txn_map' = [txn_map EXCEPT ![t].state = "ABORTED"]
  /\ lm_threads' = [lm_threads EXCEPT ![t] = LmIdle]
  /\ lock_op' = LockOp(op, t, rid, "throw", "LOCK_ON_SHRINKING", FALSE)
  /\ UNCHANGED <<lock_table_, latch_>>

\* The end of LockShared once its predicate holds.
SharedGranted(t, rid, q, waited) ==
  \E written \in BOOLEAN :
    /\ lock_table_' = [lock_table_ EXCEPT
                         ![rid].request_queue_ = GrantShared(q, t, written)]
    /\ txn_map' = AddShared(txn_map, t, rid)
    /\ lm_threads' = [lm_threads EXCEPT ![t] = LmIdle]
    /\ lock_op' = LockOp("LockShared", t, rid, "true", "", waited)
    /\ UNCHANGED latch_

LockShared(t, rid) ==
  /\ CanCall(t)
  /\ ~IsSharedLocked(txn_map[t], rid) /\ ~IsExclusiveLocked(txn_map[t], rid)
  /\ lock_ops' = lock_ops - 1
  /\ UNCHANGED waits_for_
  /\ LET txn == txn_map[t]
         lrq == lock_table_[rid]
         q == Append(lrq.request_queue_, LockRequest(t, "SHARED", FALSE))
     IN
     IF ~IsTxnValidToLock(txn) THEN ThrowOnShrinking(t, rid, "LockShared")
     ELSE IF txn.isolation_level = "READ_UNCOMMITTED" THEN
       /\ lock_op' = LockOp("LockShared", t, rid, "true", "", FALSE)
       /\ UNCHANGED <<lock_table_, txn_map, latch_, lm_threads>>
     ELSE IF ~lrq.exists THEN
       /\ lock_table_' = [lock_table_ EXCEPT
                            ![rid] = NewQueue(LockRequest(t, "SHARED", TRUE))]
       /\ txn_map' = AddShared(txn_map, t, rid)
       /\ IF txn.isolation_level = "READ_COMMITTED"
            \* Unlock(txn, rid) locks latch_ again in the thread that holds
            \* it: the thread hangs with the latch, or lock() throws.
            THEN \/ /\ latch_' = t
                    /\ lm_threads' = [lm_threads EXCEPT ![t].pc = "hung", ![t].rid = rid]
                    /\ lock_op' = LockOp("LockShared", t, rid, "hang", "", FALSE)
                 \/ /\ lm_threads' = [lm_threads EXCEPT ![t] = LmIdle]
                    /\ lock_op' = LockOp("LockShared", t, rid, "throw", "system_error", FALSE)
                    /\ UNCHANGED latch_
            ELSE /\ lm_threads' = [lm_threads EXCEPT ![t] = LmIdle]
                 /\ lock_op' = LockOp("LockShared", t, rid, "true", "", FALSE)
                 /\ UNCHANGED latch_
     ELSE IF SharedPredicate(q, t) THEN SharedGranted(t, rid, q, FALSE)
     ELSE
       /\ lock_table_' = [lock_table_ EXCEPT ![rid].request_queue_ = q]
       /\ lm_threads' = [lm_threads EXCEPT ![t].pc = "wait_shared", ![t].rid = rid]
       /\ lock_op' = LockOp("LockShared", t, rid, "wait", "", TRUE)
       /\ UNCHANGED <<txn_map, latch_>>

\* cv_.wait returns in LockShared: the predicate holds when the thread runs.
WakeShared(t) ==
  /\ LatchFree
  /\ lm_threads[t].pc = "wait_shared"
  /\ SharedPredicate(lock_table_[lm_threads[t].rid].request_queue_, t)
  /\ SharedGranted(t, lm_threads[t].rid, lock_table_[lm_threads[t].rid].request_queue_, TRUE)
  /\ UNCHANGED <<waits_for_, lock_ops>>

\* LockExclusive returning true, to its caller or into LockUpgrade.
ExclusiveGranted(t, rid, lrq, op, via, waited) ==
  /\ lock_table_' = [lock_table_ EXCEPT ![rid] = lrq]
  /\ txn_map' = AddExclusive(txn_map, t, rid)
  /\ lm_threads' = [lm_threads EXCEPT ![t] =
                      IF via THEN [pc |-> "upgrade_return", rid |-> rid, via_upgrade |-> TRUE]
                      ELSE LmIdle]
  /\ lock_op' = LockOp(op, t, rid, IF via THEN "pending" ELSE "true", "", waited)
  /\ UNCHANGED latch_

\* The body of LockExclusive, called by a client (via = FALSE) or by
\* LockUpgrade (via = TRUE).
ExclusiveBody(t, rid, op, via) ==
  LET txn == txn_map[t]
      lrq == lock_table_[rid]
      q == Append(lrq.request_queue_, LockRequest(t, "EXCLUSIVE", FALSE))
  IN
  IF ~IsTxnValidToLock(txn) THEN ThrowOnShrinking(t, rid, op)
  ELSE IF ~lrq.exists
    THEN ExclusiveGranted(t, rid, NewQueue(LockRequest(t, "EXCLUSIVE", TRUE)), op, via, FALSE)
  ELSE IF ExclusivePredicate(q, t)
    THEN ExclusiveGranted(t, rid, [lrq EXCEPT !.request_queue_ = GrantFront(q)], op, via, FALSE)
  ELSE
    /\ lock_table_' = [lock_table_ EXCEPT ![rid].request_queue_ = q]
    /\ lm_threads' = [lm_threads EXCEPT ![t] =
                        [pc |-> "wait_exclusive", rid |-> rid, via_upgrade |-> via]]
    /\ lock_op' = LockOp(op, t, rid, "wait", "", TRUE)
    /\ UNCHANGED <<txn_map, latch_>>

LockExclusive(t, rid) ==
  /\ CanCall(t)
  /\ ~IsSharedLocked(txn_map[t], rid) /\ ~IsExclusiveLocked(txn_map[t], rid)
  /\ lock_ops' = lock_ops - 1
  /\ UNCHANGED waits_for_
  /\ ExclusiveBody(t, rid, "LockExclusive", FALSE)

\* cv_.wait returns in LockExclusive.
WakeExclusive(t) ==
  LET rid == lm_threads[t].rid
      lrq == lock_table_[rid]
      via == lm_threads[t].via_upgrade
  IN
  /\ LatchFree
  /\ lm_threads[t].pc = "wait_exclusive"
  /\ ExclusivePredicate(lrq.request_queue_, t)
  /\ ExclusiveGranted(t, rid, [lrq EXCEPT !.request_queue_ = GrantFront(@)],
                      IF via THEN "LockUpgrade" ELSE "LockExclusive", via, TRUE)
  /\ UNCHANGED <<waits_for_, lock_ops>>

\* An assert of the code fails.
AssertFails(t, rid, op) ==
  /\ lock_op' = LockOp(op, t, rid, "assert", "", FALSE)
  /\ UNCHANGED <<lock_table_, txn_map, latch_, lm_threads>>

\* LockUpgrade up to latch.unlock(); callers upgrade a shared lock they hold.
LockUpgrade(t, rid) ==
  /\ CanCall(t)
  /\ IsSharedLocked(txn_map[t], rid)
  /\ lock_ops' = lock_ops - 1
  /\ UNCHANGED waits_for_
  /\ LET txn == txn_map[t]
         lrq == lock_table_[rid]
         q == lrq.request_queue_
         i == FirstIndexOf(q, t)
     IN
     IF ~IsTxnValidToLock(txn) THEN ThrowOnShrinking(t, rid, "LockUpgrade")
     ELSE IF ~lrq.exists \/ q = << >> THEN AssertFails(t, rid, "LockUpgrade")
     ELSE IF i = 0 THEN
       /\ lm_threads' = [lm_threads EXCEPT ![t] =
                           [pc |-> "upgrade_unlocked", rid |-> rid, via_upgrade |-> TRUE]]
       /\ lock_op' = LockOp("LockUpgrade", t, rid, "pending", "", FALSE)
       /\ UNCHANGED <<lock_table_, txn_map, latch_>>
     ELSE IF ~(q[i].granted_ /\ q[i].lock_mode_ = "SHARED")
       THEN AssertFails(t, rid, "LockUpgrade")
     ELSE IF lrq.upgrading_ THEN
       /\ txn_map' = [txn_map EXCEPT ![t].state = "ABORTED"]
       /\ lm_threads' = [lm_threads EXCEPT ![t] = LmIdle]
       /\ lock_op' = LockOp("LockUpgrade", t, rid, "false", "UPGRADE_CONFLICT", FALSE)
       /\ UNCHANGED <<lock_table_, latch_>>
     ELSE
       /\ lock_table_' = [lock_table_ EXCEPT ![rid] =
            [lrq EXCEPT !.upgrading_ = TRUE,
                        !.request_queue_ =
                          SpliceToEnd([q EXCEPT ![i] = LockRequest(t, "EXCLUSIVE", FALSE)], i)]]
       /\ txn_map' = [txn_map EXCEPT ![t].shared_lock_set = @ \ {rid}]
       /\ lm_threads' = [lm_threads EXCEPT ![t] =
                           [pc |-> "upgrade_unlocked", rid |-> rid, via_upgrade |-> TRUE]]
       /\ lock_op' = LockOp("LockUpgrade", t, rid, "pending", "", FALSE)
       /\ UNCHANGED latch_

\* bool upgrade = LockExclusive(txn, rid), after the latch was given up.
UpgradeLockExclusive(t) ==
  /\ LatchFree
  /\ lm_threads[t].pc = "upgrade_unlocked"
  /\ ExclusiveBody(t, lm_threads[t].rid, "LockUpgrade", TRUE)
  /\ UNCHANGED <<waits_for_, lock_ops>>

\* lock_rqst_queue->upgrading_ = false; return upgrade;
UpgradeReturn(t) ==
  /\ lock_op.result # "assert"
  /\ lm_threads[t].pc = "upgrade_return"
  /\ lock_table_' = [lock_table_ EXCEPT ![lm_threads[t].rid].upgrading_ = FALSE]
  /\ lm_threads' = [lm_threads EXCEPT ![t] = LmIdle]
  /\ lock_op' = LockOp("LockUpgrade", t, lm_threads[t].rid, "true", "", FALSE)
  /\ UNCHANGED <<txn_map, waits_for_, latch_, lock_ops>>

Unlock(t, rid) ==
  /\ CanCall(t)
  /\ lock_ops' = lock_ops - 1
  /\ UNCHANGED <<waits_for_, latch_, lm_threads>>
  /\ LET txn == txn_map[t]
         q == RemoveIf(lock_table_[rid].request_queue_, t)
     IN
     IF ~IsSharedLocked(txn, rid) /\ ~IsExclusiveLocked(txn, rid) THEN
       /\ lock_op' = LockOp("Unlock", t, rid, "false", "", FALSE)
       /\ UNCHANGED <<lock_table_, txn_map>>
     ELSE IF txn.isolation_level = "READ_COMMITTED" /\ IsSharedLocked(txn, rid) THEN
       IF txn.state # "GROWING"
         THEN /\ lock_op' = LockOp("Unlock", t, rid, "assert", "", FALSE)
              /\ UNCHANGED <<lock_table_, txn_map>>
         ELSE /\ txn_map' = [txn_map EXCEPT ![t].shared_lock_set = @ \ {rid}]
              /\ lock_table_' = [lock_table_ EXCEPT ![rid].request_queue_ = q]
              /\ lock_op' = LockOp("Unlock", t, rid, "true", "SHARED", FALSE)
     ELSE
       /\ txn_map' = [txn_map EXCEPT
            ![t].state = StateAfterUnlock(@),
            ![t].shared_lock_set = @ \ {rid},
            ![t].exclusive_lock_set =
                IF IsSharedLocked(txn, rid) THEN @ ELSE @ \ {rid}]
       /\ lock_table_' = [lock_table_ EXCEPT ![rid].request_queue_ = q]
       /\ lock_op' = LockOp("Unlock", t, rid, "true",
                            IF IsSharedLocked(txn, rid) THEN "SHARED" ELSE "EXCLUSIVE", FALSE)

\* One round of RunCycleDetection: HasCycle over the lock table, the victim
\* is set to ABORTED. order is the iteration order of the unordered_map.
RunCycleDetection ==
  /\ LatchFree
  /\ \E order \in Permutations(AllRids) :
       LET wf == BuildWaitsFor(waits_for_, lock_table_, order)
           r == HasCycle(wf)
       IN /\ waits_for_' = wf
          /\ txn_map' = IF r.found THEN [txn_map EXCEPT ![r.victim].state = "ABORTED"]
                        ELSE txn_map
          /\ lock_op' = LockOp("RunCycleDetection", r.victim, 0,
                               IF r.found THEN "true" ELSE "false", "", FALSE)
  /\ UNCHANGED <<lock_table_, latch_, lm_threads, lock_ops>>

\* ------------------------------------------------------------------------
\* ReaderWriterLatch (src/include/common/rwlatch.h)
\* ------------------------------------------------------------------------
MaxRwThreads == 3

RwThreads == 1 .. MaxRwThreads

\* static const uint32_t MAX_READERS = UINT_MAX. The model's integers end at
\* 2^31 - 1, which stands for it: the count never exceeds the number of threads.
MAX_READERS == 2147483647

RwInit ==
  /\ reader_count_ = 0
  /\ writer_entered_ = FALSE
  /\ rw_threads = [th \in RwThreads |-> "idle"]

\* while (writer_entered_) reader_.wait(latch) is left
WriterMayEnter(entered) == ~entered

\* while (reader_count_ > 0) writer_.wait(latch) is left
WriterMayProceed(count) == count = 0

\* Readers that do not look at the writer.
ReaderAlwaysEnters(entered, count) == TRUE

\* while (writer_entered_ || reader_count_ == MAX_READERS) reader_.wait(latch) is left
ReaderMayEnter(entered, count) == ~(entered \/ count = MAX_READERS)

\* WLock from its first loop on: the thread passes the loop and sets
\* writer_entered_, then holds the latch or waits for the readers to leave.
WLockEnter(th) ==
  /\ writer_entered_' = TRUE
  /\ rw_threads' = [rw_threads EXCEPT ![th] =
                      IF WriterMayProceed(reader_count_) THEN "writing" ELSE "wlock_drain"]
  /\ UNCHANGED reader_count_

WLock(th) ==
  /\ rw_threads[th] = "idle"
  /\ IF WriterMayEnter(writer_entered_) THEN WLockEnter(th)
     ELSE /\ rw_threads' = [rw_threads EXCEPT ![th] = "wlock_wait"]
          /\ UNCHANGED <<reader_count_, writer_entered_>>

\* reader_.wait returns in WLock
WLockWake(th) ==
  /\ rw_threads[th] = "wlock_wait"
  /\ WriterMayEnter(writer_entered_)
  /\ WLockEnter(th)

\* writer_.wait returns in WLock
WLockProceed(th) ==
  /\ rw_threads[th] = "wlock_drain"
  /\ WriterMayProceed(reader_count_)
  /\ rw_threads' = [rw_threads EXCEPT ![th] = "writing"]
  /\ UNCHANGED <<reader_count_, writer_entered_>>

WUnlock(th) ==
  /\ rw_threads[th] = "writing"
  /\ writer_entered_' = FALSE
  /\ rw_threads' = [rw_threads EXCEPT ![th] = "idle"]
  /\ UNCHANGED reader_count_

RLockEnter(th) ==
  /\ reader_count_' = reader_count_ + 1
  /\ rw_threads' = [rw_threads EXCEPT ![th] = "reading"]
  /\ UNCHANGED writer_entered_

RLock(th) ==
  /\ rw_threads[th] = "idle"
  /\ IF ReaderMayEnter(writer_entered_, reader_count_) THEN RLockEnter(th)
     ELSE /\ rw_threads' = [rw_threads EXCEPT ![th] = "rlock_wait"]
          /\ UNCHANGED <<reader_count_, writer_entered_>>

\* reader_.wait returns in RLock
RLockWake(th) ==
  /\ rw_threads[th] = "rlock_wait"
  /\ ReaderMayEnter(writer_entered_, reader_count_)
  /\ RLockEnter(th)

RUnlock(th) ==
  /\ rw_threads[th] = "reading"
  /\ reader_count_' = reader_count_ - 1
  /\ rw_threads' = [rw_threads EXCEPT ![th] = "idle"]
  /\ UNCHANGED writer_entered_

RwNext ==
  /\ \E th \in RwThreads :
       \/ WLock(th)
       \/ WLockWake(th)
       \/ WLockProceed(th)
       \/ WUnlock(th)
       \/ RLock(th)
       \/ RLockWake(th)
       \/ RUnlock(th)
  /\ UNCHANGED <<bpmVars, treeVars, concVars, lockVars, extVars>>

\* ---- The latch with its two condition variables -----------------------------
\* A thread in reader_.wait or writer_.wait runs again only after a notify
\* of that condition variable (or a spurious wake-up), takes mutex_ and tests
\* its loop condition again. Each call body runs under mutex_.
WaitsOnReader(th) ==
  rw_threads[th] \in {"wlock_wait", "rlock_wait"} /\ th \notin rw_notified

WaitsOnWriter(th) ==
  rw_threads[th] = "wlock_drain" /\ th \notin rw_notified

CvWaiters(cv) ==
  IF cv = "reader_" THEN {th \in RwThreads : WaitsOnReader(th)}
  ELSE IF cv = "writer_" THEN {th \in RwThreads : WaitsOnWriter(th)}
  ELSE {}

\* notify_one: one waiting thread, if there is any
NotifyOne(cv) ==
  IF CvWaiters(cv) = {} THEN UNCHANGED rw_notified
  ELSE \E w \in CvWaiters(cv) : rw_notified' = rw_notified \cup {w}

\* An RUnlock that never notifies writer_
RUnlockForgetsWriter(entered, count) ==
  IF ~entered /\ count = MAX_READERS - 1 THEN "reader_" ELSE "none"

\* The condition variable RUnlock notifies after reader_count_--
RUnlockNotifies(entered, count) ==
  IF entered
  THEN (IF count = 0 THEN "writer_" ELSE "none")
  ELSE (IF count = MAX_READERS - 1 THEN "reader_" ELSE "none")

CvWLock(th) ==
  /\ WLock(th)
  /\ UNCHANGED rw_notified

\* reader_.wait returns in WLock: the first loop tests writer_entered_ again
CvWLockWake(th) ==
  /\ rw_threads[th] = "wlock_wait"
  /\ th \in rw_notified
  /\ rw_notified' = rw_notified \ {th}
  /\ IF WriterMayEnter(writer_entered_) THEN WLockEnter(th) ELSE UNCHANGED rwVars

\* writer_.wait returns in WLock: the second loop tests reader_count_ again
CvWLockProceed(th) ==
  /\ rw_threads[th] = "wlock_drain"
  /\ th \in rw_notified
  /\ rw_notified' = rw_notified \ {th}
  /\ IF WriterMayProceed(reader_count_)
     THEN /\ rw_threads' = [rw_threads EXCEPT ![th] = "writing"]
          /\ UNCHANGED <<reader_count_, writer_entered_>>
     ELSE UNCHANGED rwVars

\* WUnlock: reader_.notify_all()
CvWUnlock(th) ==
  /\ WUnlock(th)
  /\ rw_notified' = rw_notified \cup CvWaiters("reader_")

CvRLock(th) ==
  /\ RLock(th)
  /\ UNCHANGED rw_notified

\* reader_.wait returns in RLock
CvRLockWake(th) ==
  /\ rw_threads[th] = "rlock_wait"
  /\ th \in rw_notified
  /\ rw_notified' = rw_notified \ {th}
  /\ IF ReaderMayEnter(writer_entered_, reader_count_) THEN RLockEnter(th)
     ELSE UNCHANGED rwVars

CvRUnlock(th) ==
  /\ RUnlock(th)
  /\ NotifyOne(RUnlockNotifies(writer_entered_, reader_count_ - 1))

\* A wait may return without a notify
SpuriousWake(th) ==
  /\ WaitsOnReader(th) \/ WaitsOnWriter(th)
  /\ rw_notified' = rw_notified \cup {th}
  /\ UNCHANGED rwVars

CvRest ==
  UNCHANGED <<bpmVars, treeVars, concVars, lockVars, deallocated, replacer_op, poolVars,
              catalogVars, pinVars, scenarioVars>>

CvNext ==
  /\ \E th \in RwThreads :
       \/ CvWLock(th)
       \/ CvWLockWake(th)
       \/ CvWLockProceed(th)
       \/ CvWUnlock(th)
       \/ CvRLock(th)
       \/ CvRLockWake(th)
       \/ CvRUnlock(th)
       \/ SpuriousWake(th)
  /\ CvRest

\* A thread whose wait has ended is scheduled, and a reader that holds the
\* latch calls RUnlock.
CvFairness ==
  \A th \in RwThreads :
    /\ WF_rwVars(CvWLockProceed(th) /\ CvRest)
    /\ WF_rwVars(CvRUnlock(th) /\ CvRest)

\* ------------------------------------------------------------------------
\* The lock manager's and the latch's part of every initial state
\* ------------------------------------------------------------------------
\* TransactionManager::Begin with the default isolation level.
DefaultTxns == [t \in AllTxns |-> NewTxn("REPEATABLE_READ")]

\* The disk manager has deallocated nothing and the replacer has not been
\* called directly.
ExtInit ==
  /\ deallocated = {}
  /\ rw_notified = {}
  /\ ScenarioInit
  /\ PinInit
  /\ CatalogInit
  /\ PoolInit
  /\ replacer_op = ReplacerOp("init", -1, TRUE, 0)

SyncInit ==
  /\ ExtInit
  /\ LockInit
  /\ lock_ops = MaxLockOps
  /\ txn_map = DefaultTxns
  /\ RwInit

\* The calls and steps of the transactions T on the RIDs R.
LockCalls(T, R) ==
  \E t \in T :
    \/ \E rid \in R : LockShared(t, rid)
    \/ WakeShared(t)
    \/ \E rid \in R : LockExclusive(t, rid)
    \/ WakeExclusive(t)
    \/ \E rid \in R : Unlock(t, rid)

UpgradeCalls(T, R) ==
  \E t \in T :
    \/ \E rid \in R : LockUpgrade(t, rid)
    \/ UpgradeLockExclusive(t)
    \/ UpgradeReturn(t)

LockNext ==
  /\ \/ LockCalls(LockTxns, LockRids)
     \/ UpgradeCalls(LockTxns, LockRids)
     \/ RunCycleDetection
  /\ UNCHANGED <<bpmVars, treeVars, concVars, rwVars, extVars>>

\* Three REPEATABLE_READ transactions, without upgrades and detector.
Lock3Next ==
  /\ LockCalls(AllTxns, LockRids)
  /\ UNCHANGED <<bpmVars, treeVars, concVars, rwVars, extVars>>

\* Three transactions that take exclusive locks on three RIDs, and the detector.
DetectNext ==
  /\ \/ \E t \in AllTxns :
          \/ \E rid \in AllRids : LockExclusive(t, rid)
          \/ WakeExclusive(t)
     \/ RunCycleDetection
  /\ UNCHANGED <<bpmVars, treeVars, concVars, rwVars, extVars>>

\* Two transactions that take exclusive locks on two RIDs, and the detector.
DeadlockRids == 1 .. (MaxRid + 1)

DeadlockNext ==
  /\ \/ \E t \in LockTxns :
          \/ \E rid \in DeadlockRids : LockExclusive(t, rid)
          \/ WakeExclusive(t)
          \/ \E rid \in DeadlockRids : Unlock(t, rid)
     \/ RunCycleDetection
  /\ UNCHANGED <<bpmVars, treeVars, concVars, rwVars, extVars>>


\* ------------------------------------------------------------------------
\* Specifications
\* ------------------------------------------------------------------------
BpmNext ==
  \/ FetchPage
  \/ UnpinPage
  \/ NewPage
  \/ DeletePage
  \/ FlushPage
  \/ FlushAllPages
  \/ WritePageData

\* The buffer pool alone, under a tree that is constructed and never called.
InitBpm ==
  /\ BpmInit
  /\ TreeInit
  /\ leaf_max_size_ = 3
  /\ internal_max_size_ = 3
  /\ ConcInit
  /\ SyncInit

SpecBpm == InitBpm /\ [][BpmNext]_vars

\* The tree called by one thread, for every pair of fan-outs.
InitTree ==
  /\ BpmInit
  /\ TreeInit
  /\ leaf_max_size_ \in LeafMaxSizes
  /\ internal_max_size_ \in InternalMaxSizes
  /\ ConcInit
  /\ SyncInit

SpecTree == InitTree /\ [][TreeNext]_vars

\* The tree called by two threads that insert concurrently; the leaves have the
\* smallest fan-out, so that the few inserted keys split them.
InitConc ==
  /\ BpmInit
  /\ TreeInit
  /\ leaf_max_size_ = 3
  /\ internal_max_size_ \in InternalMaxSizes
  /\ ConcInit
  /\ SyncInit

SpecConc == InitConc /\ [][ConcNext]_vars

\* The part of the initial state that the buffer pool and the tree contribute
\* to the specifications of the lock manager and of the latch.
StorageInit ==
  /\ BpmInit
  /\ TreeInit
  /\ leaf_max_size_ = 3
  /\ internal_max_size_ = 3
  /\ ConcInit

\* The lock manager called by transactions of which the first has any
\* isolation level and the others the default one.
InitLock ==
  /\ StorageInit
  /\ ExtInit
  /\ LockInit
  /\ lock_ops = MaxLockOps
  /\ \E l \in IsolationLevels : txn_map = [DefaultTxns EXCEPT ![1] = NewTxn(l)]
  /\ RwInit

SpecLock == InitLock /\ [][LockNext]_vars

InitSync == StorageInit /\ SyncInit

SpecLock3 == InitSync /\ [][Lock3Next]_vars

\* Enough calls for three transactions to wait for each other.
InitDetect ==
  /\ StorageInit
  /\ ExtInit
  /\ LockInit
  /\ lock_ops = MaxLockOps + 2
  /\ txn_map = DefaultTxns
  /\ RwInit

SpecDetect == InitDetect /\ [][DetectNext]_vars

\* Threads are scheduled: a thread that can take a step eventually does, and
\* the detector thread runs every cycle_detection_interval.
DeadlockFairness ==
  /\ WF_lockVars(RunCycleDetection)
  /\ \A t \in LockTxns : WF_lockVars(WakeExclusive(t))

SpecDeadlock == InitDetect /\ [][DeadlockNext]_vars /\ DeadlockFairness

SpecRw == InitSync /\ [][RwNext]_vars

\* The buffer pool called by threads that run concurrently.
SpecPool == InitSync /\ [][PoolNext]_vars

\* The catalog called in any order.
SpecCatalog == InitSync /\ [][CatalogNext]_vars

\* The tree called by one thread, with the pin counts of its pages.
SpecPins == InitSync /\ [][PinNext]_vars

\* The latch with notifications, scheduled fairly
SpecRwLive == InitSync /\ [][CvNext]_vars /\ CvFairness

\* Removes from trees grown by ascending inserts
SpecShrink == InitTree /\ [][ScenarioNext]_vars

\* The replacer alone, called in any order on any frames.
SpecReplacer == InitSync /\ [][ReplacerNext]_vars

\* ------------------------------------------------------------------------
\* Buffer-pool properties
\* ------------------------------------------------------------------------

\* C1: the dirty flag is sticky. A successful UnpinPage(p, false) on a resident
\* page whose frame is dirty leaves the frame dirty.
C1_DirtyIsSticky ==
  [][\A p \in PageIds :
       (/\ p \in DOMAIN page_table_
        /\ pages_[page_table_[p]].is_dirty
        /\ last_op' = Op("unpin", p, TRUE, FALSE))
       => pages_'[page_table_[p]].is_dirty]_vars

\* C2: when FetchPage or NewPage takes a frame from the replacer and the page
\* resident in it is dirty, the page's bytes are on disk under its page id once
\* the call has returned (WritePage was called before the frame was overwritten).
C2_DirtyVictimWritten ==
  [][\A f \in Frames :
       LET victim_page_id == pages_[f].page_id IN
       (/\ free_list_ = << >>
        /\ last_op'.op \in {"fetch", "new"}
        /\ last_op'.ok
        /\ last_op'.page_id \notin DOMAIN page_table_
        /\ page_table_'[last_op'.page_id] = f
        /\ victim_page_id \in DOMAIN page_table_
        /\ page_table_[victim_page_id] = f
        /\ pages_[f].is_dirty)
       => disk'[victim_page_id] = pages_[f].data]_vars

\* C3: a pinned frame is never reused. Whenever a call installs a page that
\* was not resident into a frame, that frame's pin count was 0 before the call.
C3_PinnedFrameNotReused ==
  [][\A p \in PageIds :
       (p \notin DOMAIN page_table_ /\ p \in DOMAIN page_table_')
       => pages_[page_table_'[p]].pin_count = 0]_vars

\* C4: no frame id is at the same time in the free list and in the replacer.
C4_FreeListReplacerDisjoint ==
  SeqToSet(free_list_) \cap SeqToSet(replacement_pool_) = {}

\* ------------------------------------------------------------------------
\* B+tree properties
\* ------------------------------------------------------------------------
\* What a map holding shadow answers for key k, as <<found, value>>
Expected(k) == IF k \in DOMAIN shadow THEN <<TRUE, shadow[k]>> ELSE <<FALSE, 0>>

\* C5: while only pairwise distinct keys have been inserted into the initially
\* empty tree, every Insert call returns true (and does not abort), and
\* afterwards GetValue(k) returns exactly the inserted value for every
\* inserted key k and nothing for the others.
C5_DistinctInsertsAreFound ==
  [][(only_distinct' /\ ops' = ops + 1)
       => /\ tree_op'.op = "insert" /\ tree_op'.result /\ ~tree_op'.aborted
          /\ \A k \in Keys : GetValue(CurTree, k)' = Expected(k)']_vars

\* C6: Insert(k, v2) on a tree that already contains k returns false and
\* leaves every page and the root id as they were, so GetValue(k) still
\* returns the value inserted first.
C6_DuplicateInsertRejected ==
  [][\A k \in Keys :
       (/\ ops' = ops + 1
        /\ tree_op'.op = "insert"
        /\ tree_op'.key = k
        /\ GetValue(CurTree, k)[1])
       => /\ ~tree_op'.result /\ ~tree_op'.aborted
          /\ nodes' = nodes
          /\ root_page_id_' = root_page_id_
          /\ GetValue(CurTree, k)' = GetValue(CurTree, k)]_vars

\* C7: Remove(k) behaves as deletion from a map: afterwards GetValue(k) finds
\* nothing, and GetValue(j) answers as before for every other key j.
C7_RemoveIsMapDeletion ==
  [][\A k \in Keys :
       (/\ ops' = ops + 1
        /\ tree_op'.op = "remove"
        /\ tree_op'.key = k)
       => /\ ~tree_op'.aborted
          /\ ~GetValue(CurTree, k)'[1]
          /\ \A j \in Keys \ {k} : GetValue(CurTree, j)' = GetValue(CurTree, j)]_vars

\* C8: after every completed Insert or Remove, every node of the tree other
\* than the root has min_size <= size <= max_size.
C8_NodeSizesWithinBounds ==
  \A p \in TreePages(CurTree) :
    p # root_page_id_
      => /\ GetMinSize(nodes[p]) <= GetSize(nodes[p])
         /\ GetSize(nodes[p]) <= GetMaxSize(nodes[p])

StoredKeys == DOMAIN shadow

IsStrictlyIncreasing(seq) == \A i \in 1 .. (Len(seq) - 1) : seq[i] < seq[i + 1]

LeafKeys(leaf) == [i \in 1 .. GetSize(leaf) |-> leaf.items[i - 1].key]

RECURSIVE ConcatLeafKeys(_, _)
ConcatLeafKeys(ns, chain) ==
  IF chain = << >> THEN << >>
  ELSE LeafKeys(ns[Head(chain)]) \o ConcatLeafKeys(ns, Tail(chain))

\* C9: after every Insert or Remove that leaves the tree non-empty, the
\* next_page_id chain from the leftmost leaf visits every leaf of the tree
\* exactly once with strictly increasing keys, and an iterator run from
\* begin() to isEnd() yields every stored key exactly once in ascending order.
C9_LeafChainAndIteratorSorted ==
  ~IsEmpty(CurTree) =>
    LET chain == LeafChain(CurTree) IN
    /\ SeqToSet(chain) = {p \in TreePages(CurTree) : IsLeafPage(nodes[p])}
    /\ Len(chain) = Cardinality(SeqToSet(chain))
    /\ IsStrictlyIncreasing(ConcatLeafKeys(nodes, chain))
    /\ IsStrictlyIncreasing(IterateAll(CurTree))
    /\ SeqToSet(IterateAll(CurTree)) = StoredKeys


AllIdle == \A th \in Threads : threads[th].pc = "idle"

\* C10: when concurrent Insert calls of two threads have returned, every key
\* whose Insert returned true is found by a later GetValue with the value of
\* that call; in particular both k1 and k2 of two overlapping calls.
C10_ConcurrentInsertsBothFound ==
  AllIdle => \A k \in DOMAIN shadow : GetValue(CurTree, k) = <<TRUE, shadow[k]>>

\* Two overlapping calls with distinct keys have both returned true.
C10_Witness ==
  /\ AllIdle
  /\ threads[1].ret /\ threads[2].ret
  /\ threads[1].key # threads[2].key
  /\ threads[1].overlap \/ threads[2].overlap
  /\ GetValue(CurTree, threads[1].key) = <<TRUE, threads[1].value>>
  /\ GetValue(CurTree, threads[2].key) = <<TRUE, threads[2].value>>
  /\ ~IsLeafPage(nodes[root_page_id_])


\* ------------------------------------------------------------------------
\* Lock-manager properties
\* ------------------------------------------------------------------------
Holds(t, rid) == IsSharedLocked(txn_map[t], rid) \/ IsExclusiveLocked(txn_map[t], rid)

\* C11: if a transaction has RID r in its exclusive lock set, no other
\* transaction has r in its shared or exclusive lock set (the clients never
\* request a lock they hold, except by LockUpgrade).
C11_ExclusiveLocksExclusive ==
  \A t \in AllTxns : \A rid \in AllRids :
    IsExclusiveLocked(txn_map[t], rid) =>
      \A u \in AllTxns \ {t} : ~Holds(u, rid)

\* An exclusive request that had to wait behind another holder was granted.
C11_Witness ==
  /\ lock_op.op = "LockExclusive" /\ lock_op.result = "true" /\ lock_op.waited
  /\ IsExclusiveLocked(txn_map[lock_op.txn], lock_op.rid)
  /\ \E u \in AllTxns \ {lock_op.txn} : txn_map[u].state = "SHRINKING"

\* A step in which transaction t enters the lock-manager call op on rid.
CallStep(op, t, rid) ==
  /\ lock_ops' = lock_ops - 1
  /\ lock_op'.op = op /\ lock_op'.txn = t /\ lock_op'.rid = rid

\* C12: a LockShared call of a GROWING READ_COMMITTED or REPEATABLE_READ
\* transaction returns true without waiting when every request already in the
\* RID's queue is a shared request whose transaction holds the lock (its
\* LockShared returned true and it did not unlock), however many there are.
C12_SharedLocksCompatible ==
  [][\A t \in AllTxns : \A rid \in AllRids :
       (/\ CallStep("LockShared", t, rid)
        /\ txn_map[t].state = "GROWING"
        /\ txn_map[t].isolation_level \in {"READ_COMMITTED", "REPEATABLE_READ"}
        /\ \A i \in 1 .. Len(lock_table_[rid].request_queue_) :
             LET r == lock_table_[rid].request_queue_[i] IN
             r.lock_mode_ = "SHARED" /\ IsSharedLocked(txn_map[r.txn_id_], rid))
       => (lock_op'.result = "true" /\ ~lock_op'.waited)]_vars

\* A step in which t is inside LockShared, LockExclusive or LockUpgrade and
\* runs IsTxnValidToLock.
ValidityCheckStep(t) ==
  \/ \E rid \in AllRids :
       \E op \in {"LockShared", "LockExclusive", "LockUpgrade"} : CallStep(op, t, rid)
  \/ lm_threads[t].pc = "upgrade_unlocked" /\ lm_threads'[t] # lm_threads[t]

\* C13: a lock call of a transaction that is not GROWING sets it to ABORTED,
\* fails with LOCK_ON_SHRINKING and adds nothing to a queue or a lock set; a
\* transaction that is SHRINKING never gains a lock.
C13_TwoPhaseLocking ==
  [][\A t \in AllTxns :
       /\ (ValidityCheckStep(t) /\ txn_map[t].state # "GROWING")
            => /\ txn_map'[t].state = "ABORTED"
               /\ lock_op'.result = "throw" /\ lock_op'.reason = "LOCK_ON_SHRINKING"
               /\ lock_table_' = lock_table_
               /\ \A u \in AllTxns :
                    /\ txn_map'[u].shared_lock_set = txn_map[u].shared_lock_set
                    /\ txn_map'[u].exclusive_lock_set = txn_map[u].exclusive_lock_set
       /\ txn_map[t].state = "SHRINKING"
            => /\ txn_map'[t].shared_lock_set \subseteq txn_map[t].shared_lock_set
               /\ txn_map'[t].exclusive_lock_set \subseteq txn_map[t].exclusive_lock_set]_vars

\* A transaction that had released a lock called a lock function and was refused.
C13_Witness ==
  /\ lock_op.op \in {"LockShared", "LockExclusive", "LockUpgrade"}
  /\ lock_op.result = "throw" /\ lock_op.reason = "LOCK_ON_SHRINKING"
  /\ txn_map[lock_op.txn].state = "ABORTED"
  /\ \E u \in AllTxns \ {lock_op.txn} : Holds(u, lock_op.rid)

\* C14: a successful Unlock by a GROWING transaction leaves it GROWING exactly
\* when its isolation level is READ_COMMITTED and the released lock is a
\* shared lock; otherwise the transaction becomes SHRINKING.
C14_UnlockStateTransition ==
  [][\A t \in AllTxns : \A rid \in AllRids :
       (/\ CallStep("Unlock", t, rid)
        /\ lock_op'.result = "true"
        /\ txn_map[t].state = "GROWING")
       => txn_map'[t].state =
            IF txn_map[t].isolation_level = "READ_COMMITTED"
               /\ IsSharedLocked(txn_map[t], rid)
              THEN "GROWING" ELSE "SHRINKING"]_vars

\* A REPEATABLE_READ transaction released a shared lock and is SHRINKING.
C14_Witness ==
  /\ lock_op.op = "Unlock" /\ lock_op.result = "true" /\ lock_op.reason = "SHARED"
  /\ txn_map[lock_op.txn].isolation_level = "REPEATABLE_READ"
  /\ txn_map[lock_op.txn].state = "SHRINKING"

\* a waits for b in the graph wf.
Edge(wf, a, b) == a \in DOMAIN wf /\ b \in SeqToSet(wf[a])

\* v lies on a cycle of wf and has the lowest id of the cycle's members.
LowestOnCycle(wf, v) ==
  \E n \in 1 .. Cardinality(AllTxns) :
    \E f \in [1 .. n -> AllTxns] :
      /\ f[1] = v
      /\ \A i, j \in 1 .. n : i # j => f[i] # f[j]
      /\ \A i \in 1 .. n : v <= f[i]
      /\ \A i \in 1 .. (n - 1) : Edge(wf, f[i], f[i + 1])
      /\ Edge(wf, f[n], f[1])

\* C15: when the detector reports a cycle, the transaction it aborts is a
\* member of a cycle of the wait-for graph and has the lowest transaction id
\* among the members of that cycle.
C15_VictimIsLowestOnCycle ==
  [][(lock_op'.op = "RunCycleDetection" /\ lock_op'.result = "true")
       => LowestOnCycle(waits_for_', lock_op'.txn)]_vars

\* a holds X on ra and waits for rb, b holds X on rb and waits for ra.
Deadlocked(a, b, ra, rb) ==
  /\ IsExclusiveLocked(txn_map[a], ra)
  /\ lm_threads[a].pc = "wait_exclusive" /\ lm_threads[a].rid = rb
  /\ IsExclusiveLocked(txn_map[b], rb)
  /\ lm_threads[b].pc = "wait_exclusive" /\ lm_threads[b].rid = ra

\* The blocked call of t on rid has returned without the lock.
ReturnedWithoutLock(t, rid) ==
  /\ lm_threads[t].pc = "idle"
  /\ ~IsExclusiveLocked(txn_map[t], rid)

\* C16: when a holds X on ra and waits for rb while b (a < b) holds X on rb
\* and waits for ra, then eventually a is ABORTED and its blocked call has
\* returned failure, and once a's lock on ra is released b's pending
\* LockExclusive(ra) eventually returns true.
C16_DeadlockResolved ==
  \A a \in LockTxns : \A b \in LockTxns : \A ra \in DeadlockRids : \A rb \in DeadlockRids :
    (a < b /\ ra # rb) =>
      /\ Deadlocked(a, b, ra, rb) ~>
           (txn_map[a].state = "ABORTED" /\ ReturnedWithoutLock(a, rb))
      /\ (lm_threads[b].pc = "wait_exclusive"
            /\ lm_threads[b].rid = ra /\ txn_map[a].state = "ABORTED"
            /\ lock_table_[ra].request_queue_ # << >>
            /\ lock_table_[ra].request_queue_[1].txn_id_ = b)
           ~> IsExclusiveLocked(txn_map[b], ra)

\* C17: a transaction blocked inside a lock call whose state is set to
\* ABORTED is woken up, and its call returns failure without the lock.
C17_AbortedWaiterReturns ==
  \A t \in LockTxns : \A rid \in DeadlockRids :
    (/\ lm_threads[t].pc = "wait_exclusive" /\ lm_threads[t].rid = rid
     /\ txn_map[t].state = "ABORTED")
      ~> ReturnedWithoutLock(t, rid)

\* t is between the two halves of LockUpgrade(rid), or blocked in the second.
Upgrading(t, rid) ==
  /\ lm_threads[t].via_upgrade
  /\ lm_threads[t].rid = rid

\* C18: of two transactions that hold a shared lock on the same RID and call
\* LockUpgrade on it concurrently, the one that comes second is set to ABORTED
\* and returns false, and the one that came first is not aborted by it.
C18_OneUpgradeAborts ==
  [][\A t \in LockTxns : \A u \in LockTxns \ {t} : \A rid \in LockRids :
       (/\ CallStep("LockUpgrade", t, rid)
        /\ txn_map[t].state = "GROWING" /\ IsSharedLocked(txn_map[t], rid)
        /\ txn_map[u].state = "GROWING")
       => /\ IsSharedLocked(txn_map[u], rid) =>
               /\ lock_op'.result = "pending"
               /\ txn_map'[t].state = "GROWING" /\ txn_map'[u].state = "GROWING"
          /\ Upgrading(u, rid) =>
               /\ lock_op'.result = "false" /\ txn_map'[t].state = "ABORTED"
               /\ txn_map'[u].state = "GROWING"]_vars

\* ------------------------------------------------------------------------
\* ReaderWriterLatch properties
\* ------------------------------------------------------------------------
\* C19: while a thread holds the write latch (WLock returned, WUnlock not yet
\* called) no other thread holds the read latch or the write latch; the
\* read latch may be held by several threads at once.
C19_LatchMutualExclusion ==
  \A th \in RwThreads :
    rw_threads[th] = "writing" =>
      \A other \in RwThreads \ {th} : rw_threads[other] \notin {"writing", "reading"}

\* A writer holds the latch while a reader and another writer are kept out.
C19_Witness ==
  \E th \in RwThreads :
    /\ rw_threads[th] = "writing"
    /\ \E r \in RwThreads : rw_threads[r] = "rlock_wait"
    /\ \E w \in RwThreads : rw_threads[w] = "wlock_wait"

\* ------------------------------------------------------------------------
\* Buffer-pool properties, continued
\* ------------------------------------------------------------------------
\* Some frame is on the free list, or is a replacer candidate that is not pinned.
SomeFrameAvailable ==
  \/ free_list_ # << >>
  \/ \E f \in SeqToSet(replacement_pool_) : pages_[f].pin_count = 0

\* C20: FetchPage of a page that is not resident returns absent only when
\* every frame has pin_count > 0 and the replacer is empty; it succeeds
\* whenever a frame is free or is an unpinned replacer candidate.
C20_FetchFailsOnlyWhenAllPinned ==
  [][\A page_id \in PageIds :
       (/\ last_op'.op = "fetch" /\ last_op'.page_id = page_id
        /\ page_id \notin DOMAIN page_table_)
       => /\ ~last_op'.ok =>
               /\ \A f \in Frames : pages_[f].pin_count > 0
               /\ Size(Replacer) = 0
          /\ SomeFrameAvailable => last_op'.ok]_vars

\* A fetch of a page that is not resident failed: every frame is pinned,
\* the free list and the replacer are empty.
C20_Witness ==
  /\ last_op.op = "fetch" /\ ~last_op.ok
  /\ last_op.page_id \notin DOMAIN page_table_
  /\ free_list_ = << >> /\ Size(Replacer) = 0
  /\ \A f \in Frames : pages_[f].pin_count > 0

\* Every frame of the pool is pinned.
AllPinned == \A f \in Frames : pages_[f].pin_count > 0

\* C21: NewPage returns absent whenever every frame has pin_count > 0, and
\* then hands out no page id and changes no page-table entry, no pin count,
\* and neither the free list nor the replacer.
C21_NewPageFailsWhenAllPinned ==
  [][(AllPinned /\ last_op'.op = "new")
       => /\ ~last_op'.ok
          /\ next_page_id' = next_page_id
          /\ page_table_' = page_table_
          /\ \A f \in Frames : pages_'[f].pin_count = pages_[f].pin_count
          /\ free_list_' = free_list_
          /\ replacement_pool_' = replacement_pool_
          /\ is_referenced' = is_referenced]_vars

\* C22: UnpinPage of a page that is not resident, or of a resident page
\* whose pin count is 0, returns false and changes no pin count, no dirty bit
\* and not the replacer; and no frame's pin count is ever negative.
C22_UnpinRefusedAtZero ==
  [][/\ \A f \in Frames : pages_[f].pin_count >= 0 /\ pages_'[f].pin_count >= 0
     /\ \A p \in PageIds :
          (/\ last_op'.op = "unpin" /\ last_op'.page_id = p
           /\ (p \notin DOMAIN page_table_ \/ pages_[page_table_[p]].pin_count = 0))
          => /\ ~last_op'.ok
             /\ pages_' = pages_
             /\ replacement_pool_' = replacement_pool_
             /\ is_referenced' = is_referenced]_vars

\* An UnpinPage of a resident page with pin count 0 has returned false.
C22_Witness ==
  /\ last_op.op = "unpin" /\ ~last_op.ok
  /\ last_op.page_id \in DOMAIN page_table_
  /\ pages_[page_table_[last_op.page_id]].pin_count = 0

\* C23: a frame is in the replacer if and only if it holds a resident page
\* whose pin count is 0.
C23_ReplacerTracksPinCounts ==
  \A f \in Frames :
    f \in SeqToSet(replacement_pool_)
      <=> (/\ pages_[f].pin_count = 0
           /\ \E p \in DOMAIN page_table_ : page_table_[p] = f)

\* C24: DeletePage of a resident page with pin count 0 returns true, removes
\* the page from the page table, puts its frame on the free list and
\* deallocates the page id through DiskManager::DeallocatePage.
C24_DeleteFreesFrameAndPageId ==
  [][\A p \in PageIds :
       (/\ p \in DOMAIN page_table_
        /\ pages_[page_table_[p]].pin_count = 0
        /\ last_op'.op = "delete" /\ last_op'.page_id = p)
       => /\ last_op'.ok
          /\ p \notin DOMAIN page_table_'
          /\ page_table_[p] \in SeqToSet(free_list_')
          /\ p \in deallocated']_vars

\* ------------------------------------------------------------------------
\* Replacer properties
\* ------------------------------------------------------------------------

\* C26: Victim on a non-empty ring looks at no more than 2 * Size() candidates
\* and returns a frame of the ring, which it removes (Size() drops by exactly
\* 1); it returns absent only when the ring is empty.
C26_VictimTerminatesAndRemoves ==
  [][replacer_op'.op = "Victim"
       => LET n == Len(replacement_pool_) IN
          IF n = 0
          THEN ~replacer_op'.ok /\ replacement_pool_' = replacement_pool_
          ELSE /\ replacer_op'.ok
               /\ replacer_op'.examined <= 2 * n
               /\ replacer_op'.frame \in SeqToSet(replacement_pool_)
               /\ replacer_op'.frame \notin SeqToSet(replacement_pool_')
               /\ Len(replacement_pool_') = n - 1]_vars

\* Victim has returned a frame of a ring that held several after reading
\* the hand's slot twice.
C26_Witness ==
  /\ replacer_op.op = "Victim" /\ replacer_op.ok
  /\ replacer_op.examined = 2
  /\ Len(replacement_pool_) >= 2

\* C28: when the reference bit of every candidate is set, one Victim call
\* clears the bit of every candidate of the ring and returns the candidate at
\* which the hand started.
C28_SecondChanceClearsEveryBit ==
  [][(/\ replacer_op'.op = "Victim"
      /\ replacement_pool_ # << >>
      /\ \A f \in SeqToSet(replacement_pool_) : is_referenced[f])
       => /\ replacer_op'.ok
          /\ replacer_op'.frame = replacement_pool_[pointer_ + 1]
          /\ \A f \in SeqToSet(replacement_pool_') : ~is_referenced'[f]]_vars

\* C25: every public buffer-pool operation holds the pool mutex during all of
\* its accesses to the page table, the frames, the free list and the replacer:
\* a thread that is inside an operation holds latch_.
C25_PoolAccessUnderMutex ==
  \A t \in PoolThreads : bpm_threads[t].pc # "idle" => bpm_latch_ = t

\* ------------------------------------------------------------------------
\* Catalog properties
\* ------------------------------------------------------------------------
DistinctPairs(pairs) ==
  \A i, j \in 1 .. Len(pairs) : pairs[i] = pairs[j] => i = j

\* C27: after CreateTable calls with distinct names and CreateIndex calls with
\* distinct (table name, index name) pairs, GetTable(name) returns the
\* metadata created for the name, GetIndex(index_name, table_name) the info
\* created for the pair, and the table oids and the index oids are each
\* 0, 1, 2, ... in creation order.
C27_CatalogLookupRoundTrips ==
  (catalog_op.outcome # "assert" /\ DistinctPairs(created_indexes))
  => /\ \A i \in 1 .. Len(created_tables) :
          LET r == GetTable(created_tables[i]) IN
          /\ r.outcome = "ok"
          /\ r.object = TableMetadata(created_tables[i], i - 1)
     /\ \A j \in 1 .. Len(created_indexes) :
          LET r == GetIndex(created_indexes[j][2], created_indexes[j][1]) IN
          /\ r.outcome = "ok"
          /\ r.object = IndexInfo(created_indexes[j][2], j - 1, created_indexes[j][1])
     /\ catalog_op.op = "CreateTable"
          => catalog_op.object = TableMetadata(catalog_op.table_name, Len(created_tables) - 1)
     /\ catalog_op.op = "CreateIndex"
          => catalog_op.object = IndexInfo(catalog_op.index_name, Len(created_indexes) - 1,
                                           catalog_op.table_name)

\* Two tables and two indexes with distinct names have been created and a
\* GetIndex has returned the second index.
C27_Witness ==
  /\ Len(created_tables) = 2
  /\ Len(created_indexes) = 2 /\ DistinctPairs(created_indexes)
  /\ catalog_op.op = "GetIndex" /\ catalog_op.outcome = "ok"
  /\ catalog_op.object.index_oid_ = 1

\* ------------------------------------------------------------------------
\* Pins and latches of the tree's calls
\* ------------------------------------------------------------------------

\* C29: when GetValue, Insert or Remove returns, with or without a transaction
\* and for a tree of any height, the pin count of every page's frame is what
\* it was before the call, and every access of the call to a leaf was made
\* while the leaf's pin count was at least 1.
C29_CallsReturnTheirPins ==
  [][(tree_call'.op \in {"get", "insert", "remove"} /\ ~tree_op'.aborted)
       => /\ tree_pins' = tree_pins
          /\ \A i \in 1 .. Len(tree_call'.accesses) :
               tree_call'.accesses[i].is_leaf => tree_call'.accesses[i].pin_count >= 1]_vars

\* C30: during the descent of an Insert on a non-empty tree the thread holds
\* the write latch of each page it reads; once it has latched a page with
\* size < max_size it holds no latch of an ancestor, and otherwise it still
\* holds every latch it held at the previous page.
C30_InsertCrabbing ==
  [][(tree_call'.op = "insert" /\ ~tree_call'.was_empty /\ ~tree_op'.aborted)
       => \A i \in 1 .. Len(tree_call'.accesses) :
            LET a == tree_call'.accesses[i]
                node == nodes[a.page_id]
            IN /\ a.latch = "W"
               /\ GetSize(node) < GetMaxSize(node) => a.held = {a.page_id}
               /\ (GetSize(node) >= GetMaxSize(node) /\ i > 1)
                    => tree_call'.accesses[i - 1].held \subseteq a.held]_vars

\* ==== Root shrinking, sibling choice and merges on Remove =====================
RootNode == nodes[root_page_id_]

ChildrenOf(node) == {ValueAt(node, i) : i \in 0 .. (GetSize(node) - 1)}

KeysOf(node) == [i \in 1 .. GetSize(node) |-> KeyAt(node, i - 1)]

\* The worked example: leaf and internal max size 3, insert 1..5, remove 5, 4, 3, 2
ShrinkExample ==
  /\ leaf_max_size_ = 3
  /\ internal_max_size_ = 3
  /\ tree_history = <<<<"insert", 1>>, <<"insert", 2>>, <<"insert", 3>>, <<"insert", 4>>,
                      <<"insert", 5>>, <<"remove", 5>>, <<"remove", 4>>, <<"remove", 3>>,
                      <<"remove", 2>>>>

\* C31: after a Remove the root is never an internal page with one child nor
\* an empty leaf; when the root changes, the new root is a child of the old
\* internal root and has parent_page_id INVALID_PAGE_ID; removing the only key
\* of a leaf root leaves root_page_id_ = INVALID_PAGE_ID (IsEmpty); and after
\* inserting 1..5 with both max sizes 3 and removing 5, 4, 3, 2 the root is a
\* leaf holding exactly key 1.
C31_RootShrinksOnRemove ==
  [][(tree_op'.op = "remove" /\ ~tree_op'.aborted)
       => /\ root_page_id_' # INVALID_PAGE_ID
               => /\ nodes'[root_page_id_'] # NoNode
                  /\ IsRootPage(nodes'[root_page_id_'])
                  /\ IsLeafPage(nodes'[root_page_id_']) => GetSize(nodes'[root_page_id_']) > 0
                  /\ ~IsLeafPage(nodes'[root_page_id_']) => GetSize(nodes'[root_page_id_']) >= 2
          /\ (root_page_id_' # root_page_id_ /\ root_page_id_' # INVALID_PAGE_ID)
               => /\ ~IsLeafPage(RootNode)
                  /\ root_page_id_' \in ChildrenOf(RootNode)
          /\ (root_page_id_ # INVALID_PAGE_ID /\ IsLeafPage(RootNode)
                /\ KeysOf(RootNode) = <<tree_op'.key>>)
               => /\ root_page_id_' = INVALID_PAGE_ID
                  /\ IsEmpty(Tree(nodes', root_page_id_', tree_next_page_id', TRUE))
          /\ ShrinkExample'
               => /\ IsLeafPage(nodes'[root_page_id_'])
                  /\ KeysOf(nodes'[root_page_id_']) = <<1>>]_vars

\* The worked example has been run to its end: the last Remove replaced the
\* internal root by its only remaining child.
C31_Witness ==
  /\ ShrinkExample
  /\ ~tree_op.aborted
  /\ IsLeafPage(RootNode)
  /\ KeysOf(RootNode) = <<1>>

\* The steps of the last Remove in which CoalesceOrRedistribute chose a sibling
SiblingChoices ==
  {i \in 1 .. Len(tree_log) : tree_log[i].kind = "CoalesceOrRedistribute"}

\* C32: the sibling chosen for an underfull non-root node is the child right
\* after it in its parent unless the node is the parent's last child, and the
\* child right before it in that case.
C32_RightSiblingPreferred ==
  \A i \in SiblingChoices :
    LET e == tree_log[i] IN
    e.sibling_index = (IF e.node_index # e.children - 1
                       THEN e.node_index + 1
                       ELSE e.node_index - 1)

\* The step after step i of the last Remove is a MoveAllTo between the pages a and b
MergeFollows(i, a, b) ==
  /\ i < Len(tree_log)
  /\ tree_log[i + 1].kind \in {"LeafMoveAllTo", "InternalMoveAllTo"}
  /\ {tree_log[i + 1].from, tree_log[i + 1].to} = {a, b}

C34_LeafMoveAllToAppends ==
  (tree_op.op = "remove" /\ ~tree_op.aborted)
    => \A i \in 1 .. Len(tree_log) :
         LET e == tree_log[i] IN
         e.kind = "LeafMoveAllTo"
           => /\ GetSize(nodes[e.to]) = Len(e.to_items) + Len(e.from_items)
              /\ ItemsOf(nodes[e.to]) = e.to_items \o e.from_items
              /\ nodes[e.to].next_page_id = e.from_next

WaitsBehind(table, a, b) ==
  \E rid \in AllRids :
    LET q == table[rid].request_queue_ IN
    /\ table[rid].exists
    /\ \E i, j \in 1 .. Len(q) :
         /\ i < j
         /\ q[j].txn_id_ = a /\ ~q[j].granted_
         /\ q[i].txn_id_ = b /\ q[i].granted_
         /\ ~(q[i].lock_mode_ = "SHARED" /\ q[j].lock_mode_ = "SHARED")

\* C36: after the graph construction of a detection pass, waits_for_ has the
\* edge a -> b exactly when, in the lock table, a has an ungranted request
\* behind a granted incompatible request of b; edges of earlier passes are gone.
C36_GraphRebuiltEachPass ==
  [][lock_op'.op = "RunCycleDetection"
       => \A a, b \in AllTxns :
            Edge(waits_for_', a, b) <=> WaitsBehind(lock_table_', a, b)]_vars

\* ==== Writer preference of the latch ===========================================
\* While writer_entered_ is set no RLock completes, and only the WUnlock of
\* the writer that holds the latch resets it.
WriterBlocksReaders ==
  [][writer_entered_
       => /\ \A th \in RwThreads :
               rw_threads'[th] = "reading" => rw_threads[th] = "reading"
          /\ ~writer_entered_'
               => \E th \in RwThreads :
                    rw_threads[th] = "writing" /\ rw_threads'[th] = "idle"]_vars

\* A writer that has set writer_entered_ and waits for the readers to leave
\* gets the latch.
WriterNotStarved ==
  \A th \in RwThreads :
    (rw_threads[th] = "wlock_drain") ~> (rw_threads[th] = "writing")

\* C37: once a writer has set writer_entered_, no RLock completes until that
\* writer has held and released the latch; and when threads are scheduled
\* fairly and the readers call RUnlock, the waiting writer's WLock returns.
C37_WriterPreferredNotStarved == WriterBlocksReaders /\ WriterNotStarved

\* A writer waits for a reader to leave while another reader is kept out.
C37_Witness ==
  \E w, r1, r2 \in RwThreads :
    /\ writer_entered_
    /\ rw_threads[w] = "wlock_drain"
    /\ rw_threads[r1] = "reading"
    /\ rw_threads[r2] = "rlock_wait"

\* ------------------------------------------------------------------------
\* Buffer-pool properties: the page table
\* ------------------------------------------------------------------------
\* C38: no two distinct resident page ids are mapped to the same frame, and
\* the page id recorded in a mapped frame is the key that maps to it.
C38_PageTableInjective ==
  /\ \A p, q \in DOMAIN page_table_ : page_table_[p] = page_table_[q] => p = q
  /\ \A p \in DOMAIN page_table_ : pages_[page_table_[p]].page_id = p

\* ------------------------------------------------------------------------
\* Lock-manager properties: the manager's mutex and its assertions
\* ------------------------------------------------------------------------
\* C39: no lock-manager operation locks latch_ in the thread that already
\* holds it: no thread is stuck on latch_ and no call leaves by the mutex's
\* exception, so a LockShared of a READ_COMMITTED transaction on a record
\* without a queue returns true.
C39_NoSelfRelock ==
  /\ \A t \in AllTxns : lm_threads[t].pc # "hung"
  /\ lock_op.result # "hang"
  /\ lock_op.reason # "system_error"

\* C40: with LockUpgrade called only by a transaction that holds a shared
\* lock on the record, no assert of the lock manager fails: the record that
\* LockUpgrade finds is granted and SHARED, and a READ_COMMITTED transaction
\* that releases a shared lock in Unlock is GROWING.
C40_NoAssertFails == lock_op.result # "assert"

====
